---- MODULE Spec2Model ----
(***************************************************************************)
(* A model of the midi module (src/midi.py): the variable length integer   *)
(* codec, the chunk framer, the event parsers and emitters, and the        *)
(* Sequence object (parse, format, emit).                                  *)
(*                                                                         *)
(* Bytes are naturals 0..255 and a byte source is the sequence of bytes    *)
(* its iterator has not yet yielded.  An optional value (Python's None) is *)
(* a sequence of length 0 or 1.  An operation that can raise returns a     *)
(* record whose exc field names the exception class ("none" if it          *)
(* returned normally).                                                     *)
(***************************************************************************)
EXTENDS Integers, Sequences, FiniteSets, TLC

VARIABLES
    input,      \* the file handed to Sequence.parse, as its chunks' contents
    source,     \* the bytes of that file
    events,     \* the Sequence object: its list of events
    format,     \* Sequence._format, optional
    division,   \* Sequence._division, optional
    exc,        \* exception class raised by the last operation, or "none"
    out,        \* the bytes returned by the last bytes(sequence)
    op,         \* the last operation applied, and its argument
    viValue,    \* argument of _var_int_bytes
    viBytes,    \* its result
    viParsed,   \* result of _var_int_parse on those bytes
    stream,     \* a byte source handed to Chunk.parse, optional
    chunks,     \* what the calls of Chunk.parse on it returned or raised
    viSource,   \* a byte source handed to _var_int_parse, optional
    viDecoded,  \* what _var_int_parse returned or raised on it
    wire,       \* a byte source handed to Event.parse, optional
    parsed,     \* what Event.parse returned or raised on it
    emitted,    \* what bytes() of the parsed event returned or raised
    ta,         \* a TimeAbsolute object: _note and specification, optional
    taOp,       \* the last assignment to it, and the exception it raised
    pkg,        \* a Sequence of the package: its header, its list of tracks
    pkgOp       \* the last operation on it, with what it raised or returned

seqVars == <<input, source, events, format, division, exc, out, op>>
viVars == <<viValue, viBytes, viParsed>>
chunkVars == <<stream, chunks>>
rawVars == <<viSource, viDecoded>>
evVars == <<wire, parsed, emitted>>
taVars == <<ta, taOp>>
pkgVars == <<pkg, pkgOp>>
extVars == <<chunkVars, rawVars, evVars, taVars, pkgVars>>
vars == <<input, source, events, format, division, exc, out, op,
          viValue, viBytes, viParsed, stream, chunks, viSource, viDecoded,
          wire, parsed, emitted, ta, taOp, pkg, pkgOp>>

None == <<>>
Some(x) == <<x>>

\* a local variable: F applied to the value of x, x evaluated once
Bind(x, F(_)) == CHOOSE y \in {F(v) : v \in {x}} : TRUE

-----------------------------------------------------------------------------
(* Byte helpers: int.from_bytes(b, 'big') and int.to_bytes(n, 'big').      *)

RECURSIVE FromBytes(_)
FromBytes(b) ==
    IF b = <<>> THEN 0
    ELSE FromBytes(SubSeq(b, 1, Len(b) - 1)) * 256 + b[Len(b)]

RECURSIVE Pow(_, _)
Pow(base, e) == IF e = 0 THEN 1 ELSE base * Pow(base, e - 1)

\* n.to_bytes(k, 'big'); the caller checks n < 256^k (OverflowError otherwise)
ToBytes(n, k) == [i \in 1..k |-> (n \div Pow(256, k - i)) % 256]

Reverse(s) == [i \in 1..Len(s) |-> s[Len(s) + 1 - i]]

-----------------------------------------------------------------------------
(* The variable length integer codec.                                      *)

\* the loop of _var_int_parse without its else clause (lines 1813-1814)
RECURSIVE VarIntParseLoopNoElse(_, _, _)
VarIntParseLoopNoElse(s, i, value) ==
    IF i = 4 THEN [exc |-> "none", value |-> value, rest |-> s]
    ELSE IF s = <<>> THEN [exc |-> "StopIteration", value |-> 0, rest |-> s]
    ELSE LET byte == Head(s)
             v == value * 128 + (byte % 128)
         IN  IF byte < 128
             THEN [exc |-> "none", value |-> v, rest |-> Tail(s)]
             ELSE VarIntParseLoopNoElse(Tail(s), i + 1, v)

RECURSIVE VarIntParseLoop(_, _, _)
VarIntParseLoop(s, i, value) ==
    IF i = 4 THEN [exc |-> "MIDIError", value |-> 0, rest |-> s]
    ELSE IF s = <<>> THEN [exc |-> "StopIteration", value |-> 0, rest |-> s]
    ELSE LET byte == Head(s)
             v == value * 128 + (byte % 128)
         IN  IF byte < 128
             THEN [exc |-> "none", value |-> v, rest |-> Tail(s)]
             ELSE VarIntParseLoop(Tail(s), i + 1, v)

_var_int_parse(s) == VarIntParseLoop(s, 0, 0)

RECURSIVE VarIntBytesLoop(_, _, _)
VarIntBytesLoop(value, i, array) ==
    IF i = 4 THEN [exc |-> "MIDIError", bytes |-> <<>>]
    ELSE LET a == Append(array, (value % 128) + 128)
             v == value \div 128
         IN  IF v = 0
             THEN [exc |-> "none",
                   bytes |-> Reverse([a EXCEPT ![1] = a[1] % 128])]
             ELSE VarIntBytesLoop(v, i + 1, a)

\* _var_int_bytes without line 1829 (array = reversed(array))
RECURSIVE VarIntBytesUnreversedLoop(_, _, _)
VarIntBytesUnreversedLoop(value, i, array) ==
    IF i = 4 THEN [exc |-> "MIDIError", bytes |-> <<>>]
    ELSE LET a == Append(array, (value % 128) + 128)
             v == value \div 128
         IN  IF v = 0
             THEN [exc |-> "none", bytes |-> [a EXCEPT ![1] = a[1] % 128]]
             ELSE VarIntBytesUnreversedLoop(v, i + 1, a)

VarIntBytesUnreversed(value) == VarIntBytesUnreversedLoop(value, 0, <<>>)

_var_int_bytes(value) == VarIntBytesLoop(value, 0, <<>>)

-----------------------------------------------------------------------------
(* Value objects.  A Tempo is its bpm attribute, kept as the reduced       *)
(* fraction num/den (the code keeps a float).                              *)

RECURSIVE Gcd(_, _)
Gcd(a, b) == IF b = 0 THEN a ELSE Gcd(b, a % b)

Fraction(n, d) == [num |-> n \div Gcd(n, d), den |-> d \div Gcd(n, d)]

\* Python's round() of the non-negative fraction n/d: half goes to even
Round(n, d) ==
    LET q == n \div d
        r == n % d
    IN  IF 2 * r < d THEN q
        ELSE IF 2 * r > d THEN q + 1
        ELSE IF q % 2 = 0 THEN q ELSE q + 1

\* Tempo(): bpm = 120
Tempo == Fraction(120, 1)

\* Tempo(mpqn=value): bpm = 60000000 / value; the caller checks value # 0
TempoFromMpqn(value) == Fraction(60000000, value)

\* Tempo.mpqn: round(60000000 / bpm)
mpqn(tempo) == Round(60000000 * tempo.den, tempo.num)

\* TimeSignature(): 4/4, metronome 1.0 (kept as 24ths), clock 8
TimeSignature == [numerator |-> 4, denominator |-> 4, metronome |-> 24,
                  clock |-> 8]

\* TimeDivision(ppqn) for a number
TimeDivisionPPQN(n) ==
    [mode |-> "ppqn", ppqn |-> Some(n), frames |-> None, subframes |-> None]

\* TimeDivision(bytes): the two bytes of the header's division field
TimeDivision(b) ==
    LET bits == FromBytes(b)
    IN  IF (bits \div 32768) % 2 = 1
        THEN [mode |-> "pps", ppqn |-> None,
              frames |-> Some((bits \div 256) % 128),
              subframes |-> Some(bits % 256)]
        ELSE TimeDivisionPPQN(bits % 32768)

\* TimeDivision.__bytes__
TimeDivisionBytes(d) ==
    IF d.mode = "ppqn" THEN ToBytes(d.ppqn[1], 2)
    ELSE ToBytes(32768 + d.frames[1] * 256 + d.subframes[1], 2)

\* Time(): bar 1, beat 1, tick 0 of a 480 PPQN clock, no tempo or signature
Time ==
    [bars |-> 0, beats |-> 0, ticks |-> 0, tempo |-> None,
     signature |-> None, division |-> TimeDivisionPPQN(480)]

-----------------------------------------------------------------------------
(* Events.  cls is the event's class; args holds the attributes its        *)
(* constructor stored (note and velocity, the text, ...); program is the   *)
(* number of the Program of a ProgramChange, the only class with a program *)
(* attribute; ticks is the delta time of Delta; tempo, signature and       *)
(* division are the attributes parse stamps on it.                         *)

ChannelEvent_events ==
    [t \in {128, 144, 160, 176, 192, 208, 224} |->
        CASE t = 128 -> "NoteOff"
          [] t = 144 -> "NoteOn"
          [] t = 160 -> "NoteAftertouch"
          [] t = 176 -> "Controller"
          [] t = 192 -> "ProgramChange"
          [] t = 208 -> "ChannelAftertouch"
          [] t = 224 -> "PitchBend"]

MetaEvent_events ==
    [t \in {0, 1, 2, 3, 4, 5, 6, 7, 32, 47, 81, 84, 88, 89, 127} |->
        CASE t = 0 -> "SequenceNumber"
          [] t = 1 -> "Text"
          [] t = 2 -> "Copyright"
          [] t = 3 -> "Name"
          [] t = 4 -> "ProgramName"
          [] t = 5 -> "Lyrics"
          [] t = 6 -> "Marker"
          [] t = 7 -> "CuePoint"
          [] t = 32 -> "ChannelPrefix"
          [] t = 47 -> "EndTrack"
          [] t = 81 -> "SetTempo"
          [] t = 84 -> "SMPTEOffset"
          [] t = 88 -> "SetTimeSignature"
          [] t = 89 -> "SetKeySignature"
          [] t = 127 -> "ProprietaryEvent"]

TextClasses ==
    {"Text", "Copyright", "Name", "ProgramName", "Lyrics", "Marker",
     "CuePoint"}

\* the inverse tables ChannelEvent._types and MetaEvent._types
ChannelEvent_types(cls) ==
    CHOOSE t \in DOMAIN ChannelEvent_events : ChannelEvent_events[t] = cls

MetaEvent_types(cls) ==
    CHOOSE t \in DOMAIN MetaEvent_events : MetaEvent_events[t] = cls

IsMetaEvent(e) == e.cls \in {MetaEvent_events[t] : t \in DOMAIN MetaEvent_events}

IsChannelEvent(e) ==
    e.cls \in {ChannelEvent_events[t] : t \in DOMAIN ChannelEvent_events}

\* Event.__init__ and the subclass constructors: a new event with the
\* attributes its class stores, delta time 0, no track, channel or stamps
Event(cls, args) ==
    [cls |-> cls, args |-> args, ticks |-> 0, track |-> None,
     channel |-> None, program |-> None, tempo |-> None,
     signature |-> None, division |-> None, time |-> Time]

Raise(exception, s) == [exc |-> exception, event |-> Event("", <<>>), rest |-> s]

Return(event, s) == [exc |-> "none", event |-> event, rest |-> s]

\* the subclass constructors of MetaEvent applied to the event's data
MetaEvent_new(cls, data, s) ==
    CASE cls = "SequenceNumber" -> Return(Event(cls, <<FromBytes(data)>>), s)
      [] cls \in TextClasses ->
            IF \E i \in 1..Len(data) : data[i] >= 128
            THEN Raise("UnicodeDecodeError", s)
            ELSE Return(Event(cls, data), s)
      [] cls = "ChannelPrefix" -> Return(Event(cls, <<FromBytes(data)>>), s)
      [] cls = "EndTrack" -> Return(Event(cls, <<>>), s)
      [] cls = "SetTempo" ->
            IF FromBytes(data) = 0
            THEN Raise("ZeroDivisionError", s)
            ELSE Return([Event(cls, <<>>) EXCEPT
                            !.tempo = Some(TempoFromMpqn(FromBytes(data)))], s)
      [] cls = "SMPTEOffset" -> Return(Event(cls, data), s)
      [] cls = "SetTimeSignature" -> Raise("NameError", s)
      [] cls = "SetKeySignature" ->
            IF Len(data) < 2
            THEN Raise("IndexError", s)
            ELSE Return(Event(cls, <<IF data[1] > 127 THEN data[1] - 256
                                     ELSE data[1], data[2]>>), s)
      [] cls = "ProprietaryEvent" -> Return(Event(cls, data), s)

\* MetaEvent._parse: the type byte, then the subclass's _parse (the length
\* as a variable length integer, that many bytes, the constructor)
MetaEvent_parse(s) ==
    IF s = <<>> THEN Raise("StopIteration", s)
    ELSE IF Head(s) \notin DOMAIN MetaEvent_events THEN Raise("KeyError", Tail(s))
    ELSE Bind(_var_int_parse(Tail(s)), LAMBDA length :
             IF length.exc # "none" THEN Raise(length.exc, length.rest)
             ELSE IF Len(length.rest) < length.value
             THEN Raise("StopIteration", <<>>)
             ELSE MetaEvent_new(MetaEvent_events[Head(s)],
                                SubSeq(length.rest, 1, length.value),
                                SubSeq(length.rest, length.value + 1,
                                       Len(length.rest))))

\* SysExEvent._parse takes (cls, source) and is called with (source, status)
SysExEvent_parse(s, status) == Raise("TypeError", s)

\* ChannelEvent._parse with running status in place of lines 1020-1023: a
\* status byte of no event type is taken as the first data byte of a NoteOn
ChannelEvent_parseRunning(s, status) ==
    LET channel == status % 16
        type == status - channel
    IN  IF type \notin DOMAIN ChannelEvent_events
        THEN IF s = <<>> THEN Raise("StopIteration", s)
             ELSE Return([Event("NoteOn", <<status, s[1]>>)
                             EXCEPT !.channel = Some(0)], Tail(s))
        ELSE LET cls == ChannelEvent_events[type]
                 on(e) == [e EXCEPT !.channel = Some(channel)]
             IN  CASE cls \in {"ProgramChange", "ChannelAftertouch"} ->
                        IF s = <<>> THEN Raise("StopIteration", s)
                        ELSE IF cls = "ChannelAftertouch"
                        THEN Return(on(Event(cls, <<s[1]>>)), Tail(s))
                        ELSE IF s[1] + 1 > 128 THEN Raise("MIDIError", Tail(s))
                        ELSE Return(on([Event(cls, <<>>) EXCEPT
                                           !.program = Some(s[1] + 1)]),
                                    Tail(s))
                   [] cls = "PitchBend" ->
                        IF Len(s) < 2 THEN Raise("StopIteration", <<>>)
                        ELSE Return(on(Event(cls,
                                 <<(s[1] % 128) + (s[2] % 128) * 128 - 8192>>)),
                                 Tail(Tail(s)))
                   [] OTHER ->
                        IF Len(s) < 2 THEN Raise("StopIteration", <<>>)
                        ELSE Return(on(Event(cls, <<s[1], s[2]>>)),
                                    Tail(Tail(s)))

\* ChannelEvent._parse
ChannelEvent_parse(s, status) ==
    LET channel == status % 16
        type == status - channel
    IN  IF type \notin DOMAIN ChannelEvent_events THEN Raise("MIDIError", s)
        ELSE LET cls == ChannelEvent_events[type]
                 on(e) == [e EXCEPT !.channel = Some(channel)]
             IN  CASE cls \in {"ProgramChange", "ChannelAftertouch"} ->
                        IF s = <<>> THEN Raise("StopIteration", s)
                        ELSE IF cls = "ChannelAftertouch"
                        THEN Return(on(Event(cls, <<s[1]>>)), Tail(s))
                        ELSE IF s[1] + 1 > 128 THEN Raise("MIDIError", Tail(s))
                        ELSE Return(on([Event(cls, <<>>) EXCEPT
                                           !.program = Some(s[1] + 1)]),
                                    Tail(s))
                   [] cls = "PitchBend" ->
                        IF Len(s) < 2 THEN Raise("StopIteration", <<>>)
                        ELSE Return(on(Event(cls,
                                 <<(s[1] % 128) + (s[2] % 128) * 128 - 8192>>)),
                                 Tail(Tail(s)))
                   [] OTHER ->
                        IF Len(s) < 2 THEN Raise("StopIteration", <<>>)
                        ELSE Return(on(Event(cls, <<s[1], s[2]>>)),
                                    Tail(Tail(s)))

\* Event.parse: the delta time, the status byte, the delegate parser
Event_parse(s) ==
    Bind(_var_int_parse(s), LAMBDA ticks :
        IF ticks.exc # "none" THEN Raise(ticks.exc, ticks.rest)
        ELSE IF ticks.rest = <<>> THEN Raise("StopIteration", <<>>)
        ELSE LET status == Head(ticks.rest)
                 r == Tail(ticks.rest)
             IN  Bind(IF status = 255 THEN MetaEvent_parse(r)
                      ELSE IF status = 247 \/ status = 240
                      THEN SysExEvent_parse(r, status)
                      ELSE ChannelEvent_parse(r, status),
                      LAMBDA e :
                        IF e.exc # "none" THEN e
                        ELSE [e EXCEPT !.event.ticks = ticks.value]))

\* Delta.__bytes__: the delta time as a variable length integer
DeltaBytes(e) == _var_int_bytes(e.ticks)

\* the _parameters methods of the channel events; PitchBend's reads
\* self.vale, an attribute no PitchBend has
ChannelEvent_parameters(e) ==
    CASE e.cls = "PitchBend" -> [exc |-> "AttributeError", bytes |-> <<>>]
      [] e.cls = "ProgramChange" ->
            [exc |-> "none", bytes |-> <<e.program[1] - 1>>]
      [] OTHER -> [exc |-> "none", bytes |-> e.args]

\* ChannelEvent.__bytes__
ChannelEventBytes(e) ==
    LET delta == DeltaBytes(e)
        parameters == ChannelEvent_parameters(e)
    IN  IF delta.exc # "none" THEN delta
        ELSE IF e.channel = None THEN [exc |-> "TypeError", bytes |-> <<>>]
        ELSE IF parameters.exc # "none" THEN parameters
        ELSE [exc |-> "none",
              bytes |-> delta.bytes
                        \o <<ChannelEvent_types(e.cls) + e.channel[1]>>
                        \o parameters.bytes]

\* the _bytes methods of the meta events
MetaEvent_bytes(e) ==
    CASE e.cls = "SequenceNumber" ->
            IF e.args[1] >= Pow(256, 2)
            THEN [exc |-> "OverflowError", bytes |-> <<>>]
            ELSE [exc |-> "none", bytes |-> ToBytes(e.args[1], 2)]
      [] e.cls = "ChannelPrefix" ->
            IF e.args[1] >= 256
            THEN [exc |-> "OverflowError", bytes |-> <<>>]
            ELSE [exc |-> "none", bytes |-> ToBytes(e.args[1], 1)]
      [] e.cls = "SetTempo" ->
            IF mpqn(e.tempo[1]) >= Pow(256, 3)
            THEN [exc |-> "OverflowError", bytes |-> <<>>]
            ELSE [exc |-> "none", bytes |-> ToBytes(mpqn(e.tempo[1]), 3)]
      [] e.cls = "SetKeySignature" ->
            IF e.args[2] >= 256
            THEN [exc |-> "OverflowError", bytes |-> <<>>]
            ELSE [exc |-> "none",
                  bytes |-> <<IF e.args[1] < 0 THEN e.args[1] + 256
                              ELSE e.args[1], e.args[2]>>]
      [] OTHER -> [exc |-> "none", bytes |-> e.args]

\* MetaEvent.__bytes__
MetaEventBytes(e) ==
    LET data == MetaEvent_bytes(e)
        delta == DeltaBytes(e)
        length == _var_int_bytes(Len(data.bytes))
    IN  IF data.exc # "none" THEN data
        ELSE IF delta.exc # "none" THEN delta
        ELSE IF length.exc # "none" THEN length
        ELSE [exc |-> "none",
              bytes |-> delta.bytes \o <<255, MetaEvent_types(e.cls)>>
                        \o length.bytes \o data.bytes]

\* bytes(event)
EventBytes(e) ==
    IF IsMetaEvent(e) THEN MetaEventBytes(e) ELSE ChannelEventBytes(e)

-----------------------------------------------------------------------------
(* The chunk framer.                                                       *)

MThd == <<77, 84, 104, 100>>
MTrk == <<77, 84, 114, 107>>

\* Python's b[i:j]
Slice(b, i, j) == SubSeq(b, i + 1, IF j < Len(b) THEN j ELSE Len(b))

ChunkRaise(s) == [exc |-> "MIDIError", id |-> <<>>, data |-> <<>>, rest |-> s]

\* Chunk.parse on an iterator that yields single bytes; id is the optional
\* ID the caller requires
Chunk_parse(s, id) ==
    IF Len(s) < 4 THEN ChunkRaise(<<>>)
    ELSE IF \E i \in 1..4 : s[i] >= 128 THEN ChunkRaise(Slice(s, 4, Len(s)))
    ELSE IF id # None /\ id[1] # Slice(s, 0, 4)
    THEN ChunkRaise(Slice(s, 4, Len(s)))
    ELSE IF Len(s) < 8 THEN ChunkRaise(<<>>)
    ELSE LET length == FromBytes(Slice(s, 4, 8)) + 8
         IN  IF Len(s) < length THEN ChunkRaise(<<>>)
             ELSE [exc |-> "none", id |-> Slice(s, 0, 4),
                   data |-> Slice(s, 8, length),
                   rest |-> Slice(s, length, Len(s))]

\* Chunk.raw
Chunk_raw(id, data) == id \o ToBytes(Len(data), 4) \o data

-----------------------------------------------------------------------------
(* Time arithmetic of Sequence.parse.  Header divisions are PPQN values    *)
(* that divide 480, so that the products the code computes in floating     *)
(* point are integers.                                                     *)

\* Time._update_signature: carry ticks into beats and beats into bars
Time_update_signature(t) ==
    IF t.tempo = None \/ t.signature = None THEN t
    ELSE LET ppb == (4 * t.division.ppqn[1]) \div t.signature[1].denominator
             beats == t.beats + (t.ticks \div ppb)
         IN  [t EXCEPT !.ticks = t.ticks % ppb,
                       !.bars = t.bars + (beats \div t.signature[1].numerator),
                       !.beats = beats % t.signature[1].numerator]

\* Time(event): the event's delta time on the 480 PPQN clock of Time();
\* Delta._update_division scales by 480 / event.division.ppqn
TimeOfEvent(e) ==
    CASE e.division[1].mode = "ppqn" ->
        Time_update_signature(
            [Time EXCEPT !.tempo = e.tempo, !.signature = e.signature,
                         !.ticks = (e.ticks * 480) \div e.division[1].ppqn[1]])

\* Time.__add__(self, event)
Time_add(self, e) ==
    LET time == TimeOfEvent(e)
    IN  Time_update_signature(
            [time EXCEPT !.bars = time.bars + self.bars,
                         !.beats = time.beats + self.beats,
                         !.ticks = time.ticks + self.ticks])

-----------------------------------------------------------------------------
(* The Sequence object.                                                    *)

\* Sequence.tracks: 1 + the largest track number; max() of an empty
\* sequence raises ValueError, and a track of None fails in the comparison
\* or in the addition with TypeError
Sequence_tracks(evs) ==
    IF evs = <<>> THEN [exc |-> "ValueError", value |-> 0]
    ELSE IF \E i \in 1..Len(evs) : evs[i].track = None
    THEN [exc |-> "TypeError", value |-> 0]
    ELSE [exc |-> "none",
          value |-> 1 + CHOOSE t \in {evs[i].track[1] : i \in 1..Len(evs)} :
                          \A i \in 1..Len(evs) : evs[i].track[1] <= t]

\* Sequence.track(n): the events of track n, in the order of the list
Sequence_track(evs, n) == SelectSeq(evs, LAMBDA e : e.track = Some(n))

\* the track loop of Sequence.parse (lines 1573-1585): events up to the
\* first EndTrack, each with its cumulative time, track and division
RECURSIVE ParseTrack(_, _, _, _, _)
ParseTrack(data, cumulative, track, div, acc) ==
    Bind(Event_parse(data), LAMBDA r :
        IF r.exc = "StopIteration" THEN [exc |-> "MIDIError", events |-> acc]
        ELSE IF r.exc # "none" THEN [exc |-> r.exc, events |-> acc]
        ELSE IF r.event.cls = "EndTrack" THEN [exc |-> "none", events |-> acc]
        ELSE LET c == cumulative + r.event.ticks
                 e == [r.event EXCEPT !.track = Some(track),
                                      !.division = Some(div)]
             IN  ParseTrack(r.rest, c, track, div,
                            Append(acc, [event |-> e, cumulative |-> c])))

\* the chunk loop with a track counter that counts every chunk
RECURSIVE ParseChunksCounting(_, _, _, _, _)
ParseChunksCounting(s, remaining, track, div, acc) ==
    IF remaining = 0 THEN [exc |-> "none", events |-> acc]
    ELSE Bind(Chunk_parse(s, None), LAMBDA chunk :
             IF chunk.exc # "none" THEN [exc |-> chunk.exc, events |-> acc]
             ELSE IF chunk.id = MTrk
             THEN Bind(ParseTrack(chunk.data, 0, track, div, acc), LAMBDA t :
                      IF t.exc # "none" THEN t
                      ELSE ParseChunksCounting(chunk.rest, remaining - 1,
                                               track + 1, div, t.events))
             ELSE ParseChunksCounting(chunk.rest, remaining - 1, track + 1,
                                      div, acc))

\* the chunk loop of Sequence.parse (lines 1568-1586)
RECURSIVE ParseChunks(_, _, _, _, _)
ParseChunks(s, remaining, track, div, acc) ==
    IF remaining = 0 THEN [exc |-> "none", events |-> acc]
    ELSE Bind(Chunk_parse(s, None), LAMBDA chunk :
             IF chunk.exc # "none" THEN [exc |-> chunk.exc, events |-> acc]
             ELSE IF chunk.id = MTrk
             THEN Bind(ParseTrack(chunk.data, 0, track, div, acc), LAMBDA t :
                      IF t.exc # "none" THEN t
                      ELSE ParseChunks(chunk.rest, remaining - 1, track + 1,
                                       div, t.events))
             ELSE ParseChunks(chunk.rest, remaining - 1, track, div, acc))

\* list.sort(key=cumulative): stable, by the cumulative time alone
RECURSIVE SortByCumulative(_)
SortByCumulative(l) ==
    IF l = <<>> THEN <<>>
    ELSE Bind(SortByCumulative(SubSeq(l, 1, Len(l) - 1)), LAMBDA sorted :
             LET x == l[Len(l)]
                 k == Cardinality({i \in 1..Len(sorted) :
                                      sorted[i].cumulative <= x.cumulative})
             IN  SubSeq(sorted, 1, k) \o <<x>>
                 \o SubSeq(sorted, k + 1, Len(sorted)))

\* the stamping loop of Sequence.parse (lines 1597-1608): the running tempo
\* and signature, and one running Time per track
RECURSIVE Stamp(_, _, _, _, _)
Stamp(l, tempo, signature, times, acc) ==
    IF l = <<>> THEN acc
    ELSE LET e0 == l[1].event
             e1 == IF e0.cls = "SetTempo" THEN e0
                   ELSE [e0 EXCEPT !.tempo = Some(tempo)]
             e2 == IF e0.cls = "SetTimeSignature" THEN e1
                   ELSE [e1 EXCEPT !.signature = Some(signature)]
             time == Time_add(times[e0.track[1]], e2)
         IN  Stamp(Tail(l),
                   IF e0.cls = "SetTempo" THEN e0.tempo[1] ELSE tempo,
                   IF e0.cls = "SetTimeSignature" THEN e0.signature[1]
                   ELSE signature,
                   [times EXCEPT ![e0.track[1]] = time],
                   Append(acc, [e2 EXCEPT !.time = time]))

SequenceRaise(exception) ==
    [exc |-> exception, events |-> <<>>, format |-> None, division |-> None]

\* Sequence.parse
Sequence_parse(s) ==
    Bind(Chunk_parse(s, Some(MThd)), LAMBDA header :
    IF header.exc # "none" THEN SequenceRaise(header.exc)
    ELSE
    Bind(TimeDivision(Slice(header.data, 4, 6)), LAMBDA div :
    Bind(ParseChunks(header.rest, FromBytes(Slice(header.data, 2, 4)),
                     0, div, <<>>), LAMBDA body :
    IF body.exc # "none" THEN SequenceRaise(body.exc)
    ELSE
    Bind(SortByCumulative(body.events), LAMBDA sorted :
    Bind(Sequence_tracks([i \in 1..Len(sorted) |-> sorted[i].event]),
         LAMBDA tracks :
    IF tracks.exc # "none" THEN SequenceRaise(tracks.exc)
    ELSE IF div.mode = "ppqn" /\ div.ppqn[1] = 0
    THEN SequenceRaise("ZeroDivisionError")
    ELSE [exc |-> "none",
          events |-> Stamp(sorted, Tempo, TimeSignature,
                           [t \in 0..(tracks.value - 1) |-> Time], <<>>),
          format |-> Some(FromBytes(Slice(header.data, 0, 2))),
          division |-> Some(div)])))))

\* the events of one track and the EndTrack that __bytes__ appends, as bytes
RECURSIVE TrackBytes(_)
TrackBytes(l) ==
    IF l = <<>> THEN EventBytes(Event("EndTrack", <<>>))
    ELSE Bind(EventBytes(l[1]), LAMBDA head :
             IF head.exc # "none" THEN head
             ELSE Bind(TrackBytes(Tail(l)), LAMBDA tail :
                      IF tail.exc # "none" THEN tail
                      ELSE [exc |-> "none",
                            bytes |-> head.bytes \o tail.bytes]))

\* the MTrk chunks of tracks n .. tracks - 1
RECURSIVE TrackChunks(_, _, _)
TrackChunks(evs, n, tracks) ==
    IF n = tracks THEN [exc |-> "none", bytes |-> <<>>]
    ELSE Bind(TrackBytes(Sequence_track(evs, n)), LAMBDA chunk :
             IF chunk.exc # "none" THEN chunk
             ELSE Bind(TrackChunks(evs, n + 1, tracks), LAMBDA tail :
                      IF tail.exc # "none" THEN tail
                      ELSE [exc |-> "none",
                            bytes |-> Chunk_raw(MTrk, chunk.bytes)
                                      \o tail.bytes]))

\* Sequence.__bytes__
Sequence_bytes(evs, fmt, div) ==
    Bind(Sequence_tracks(evs), LAMBDA tracks :
        IF tracks.exc # "none" THEN [exc |-> tracks.exc, bytes |-> <<>>]
        ELSE IF fmt = None THEN [exc |-> "AttributeError", bytes |-> <<>>]
        ELSE IF fmt[1] >= Pow(256, 2) \/ tracks.value >= Pow(256, 2)
        THEN [exc |-> "OverflowError", bytes |-> <<>>]
        ELSE IF div = None THEN [exc |-> "TypeError", bytes |-> <<>>]
        ELSE Bind(TrackChunks(evs, 0, tracks.value), LAMBDA body :
                 IF body.exc # "none" THEN body
                 ELSE [exc |-> "none",
                       bytes |-> Chunk_raw(MThd, ToBytes(fmt[1], 2)
                                                 \o ToBytes(tracks.value, 2)
                                                 \o TimeDivisionBytes(div[1]))
                                 \o body.bytes]))

\* the 0 to 1 conversion of the format setter (lines 1633-1637)
Retrack(evs) ==
    [i \in 1..Len(evs) |->
        [evs[i] EXCEPT !.track = IF IsMetaEvent(evs[i]) THEN Some(0)
                                 ELSE Some(1)]]

\* the format setter without its last branch (lines 1638-1641)
Sequence_format_unchecked(evs, fmt, value) ==
    IF fmt = None \/ Len(evs) = 0
    THEN [exc |-> "none", format |-> value, events |-> evs]
    ELSE IF fmt = Some(0) /\ value = Some(1)
    THEN Bind(Sequence_tracks(evs), LAMBDA tracks :
             IF tracks.exc # "none"
             THEN [exc |-> tracks.exc, format |-> fmt, events |-> evs]
             ELSE IF tracks.value # 1
             THEN [exc |-> "MIDIError", format |-> fmt, events |-> evs]
             ELSE [exc |-> "none", format |-> Some(1),
                   events |-> Retrack(evs)])
    ELSE [exc |-> "none", format |-> value, events |-> evs]

\* the format setter with line 1632 (self._format = 1) and the loop over
\* the events moved before the test of self.tracks
Sequence_format_assign_first(evs, fmt, value) ==
    IF fmt = None \/ Len(evs) = 0
    THEN [exc |-> "none", format |-> value, events |-> evs]
    ELSE IF fmt = Some(0) /\ value = Some(1)
    THEN Bind(Sequence_tracks(evs), LAMBDA tracks :
             IF tracks.exc # "none"
             THEN [exc |-> tracks.exc, format |-> fmt, events |-> evs]
             ELSE IF tracks.value # 1
             THEN [exc |-> "MIDIError", format |-> Some(1),
                   events |-> Retrack(evs)]
             ELSE [exc |-> "none", format |-> Some(1),
                   events |-> Retrack(evs)])
    ELSE IF fmt # value
    THEN [exc |-> "MIDIError", format |-> fmt, events |-> evs]
    ELSE [exc |-> "none", format |-> fmt, events |-> evs]

\* the setter of Sequence.format
Sequence_format(evs, fmt, value) ==
    IF fmt = None \/ Len(evs) = 0
    THEN [exc |-> "none", format |-> value, events |-> evs]
    ELSE IF fmt = Some(0) /\ value = Some(1)
    THEN Bind(Sequence_tracks(evs), LAMBDA tracks :
             IF tracks.exc # "none"
             THEN [exc |-> tracks.exc, format |-> fmt, events |-> evs]
             ELSE IF tracks.value # 1
             THEN [exc |-> "MIDIError", format |-> fmt, events |-> evs]
             ELSE [exc |-> "none", format |-> Some(1),
                   events |-> Retrack(evs)])
    ELSE IF fmt # value
    THEN [exc |-> "MIDIError", format |-> fmt, events |-> evs]
    ELSE [exc |-> "none", format |-> fmt, events |-> evs]

-----------------------------------------------------------------------------
(* The codec on its own: _var_int_bytes applied to an integer, then        *)
(* _var_int_parse applied to the bytes it returned.                        *)

\* the integers 0 .. VarIntSpan are all encoded, and so are the values
\* around every change of the encoding's length
VarIntSpan == 300

VarIntLimit == Pow(128, 4)

VarIntEdges ==
    UNION {{Pow(128, k) - 2, Pow(128, k) - 1, Pow(128, k), Pow(128, k) + 1,
            Pow(128, k) * 2, Pow(128, k) * 127 + 5} : k \in 1..3}
      \cup {VarIntLimit - 2, VarIntLimit - 1}

VarIntInputs ==
    (0..VarIntSpan) \cup VarIntEdges \cup {VarIntLimit, VarIntLimit + 1}

SeqIdle ==
    /\ input = None
    /\ source = <<>>
    /\ events = <<>>
    /\ format = None
    /\ division = None
    /\ exc = "none"
    /\ out = None
    /\ op = [name |-> "idle", arg |-> None]

VarIntIdle ==
    /\ viValue = None
    /\ viBytes = None
    /\ viParsed = None

ChunkIdle ==
    /\ stream = None
    /\ chunks = <<>>

RawIdle ==
    /\ viSource = None
    /\ viDecoded = None

EvIdle ==
    /\ wire = None
    /\ parsed = None
    /\ emitted = None

TaIdle ==
    /\ ta = None
    /\ taOp = None

PkgIdle ==
    /\ pkg = None
    /\ pkgOp = None

ExtIdle == ChunkIdle /\ RawIdle /\ EvIdle /\ TaIdle /\ PkgIdle

VarIntBytes ==
    /\ viValue = None
    /\ \E n \in VarIntInputs :
          /\ viValue' = Some(n)
          /\ viBytes' = Some(_var_int_bytes(n))
    /\ UNCHANGED <<viParsed, seqVars, extVars>>

VarIntParse ==
    /\ viBytes # None
    /\ viParsed = None
    /\ viBytes[1].exc = "none"
    /\ viParsed' = Some(_var_int_parse(viBytes[1].bytes))
    /\ UNCHANGED <<viValue, viBytes, seqVars, extVars>>

InitVarInt == SeqIdle /\ VarIntIdle /\ ExtIdle

NextVarInt == VarIntBytes \/ VarIntParse

SpecVarInt == InitVarInt /\ [][NextVarInt]_vars

-----------------------------------------------------------------------------
(* Input files.  A file is its header fields and, per MTrk chunk, the      *)
(* events of the track, each given by the bytes of its delta time and of   *)
(* its body; every track ends with an EndTrack of delta 0 and the header   *)
(* counts the chunks.  cut > 0 keeps only the first cut bytes.  alien > 0  *)
(* puts a chunk with another ID before the track of that number (after    *)
(* the last track, if there is none of that number), counted in the        *)
(* header.  short > 0 is a last track whose payload lacks its last short   *)
(* bytes, the chunk length being that of the shortened payload.            *)

MaxTracks == 2
MaxEvents == 2

Element(delta, body, wellformed) ==
    [delta |-> delta, body |-> body, wellformed |-> wellformed]

Elements ==
    { Element(<<0>>, <<144, 60, 100>>, TRUE),            \* NoteOn, tick +0
      Element(<<131, 96>>, <<144, 60, 100>>, TRUE),      \* NoteOn, +480
      Element(<<0>>, <<192, 5>>, TRUE),                  \* ProgramChange
      Element(<<0>>, <<224, 0, 64>>, TRUE),              \* PitchBend
      Element(<<10>>, <<255, 1, 1, 65>>, TRUE),          \* Text, +10
      Element(<<0>>, <<255, 81, 3, 6, 26, 128>>, TRUE),  \* SetTempo 150 BPM
      Element(<<135, 64>>, <<255, 81, 3, 6, 26, 128>>, TRUE),   \* same, +960
      Element(<<0>>, <<255, 81, 3, 7, 161, 32>>, TRUE),  \* SetTempo 120 BPM
      Element(<<0>>, <<255, 88, 4, 3, 3, 24, 8>>, TRUE), \* SetTimeSignature
      Element(<<0>>, <<240, 1, 0>>, FALSE),              \* SysEx
      Element(<<0>>, <<255, 96, 0>>, FALSE),             \* unknown meta type
      Element(<<0>>, <<255, 81, 3, 0, 0, 0>>, FALSE) }   \* SetTempo, zero

TracksUpTo(k) == UNION {[1..n -> Elements] : n \in 0..k}

\* the lists of n tracks that hold at most k events together
RECURSIVE TrackLists(_, _)
TrackLists(n, k) ==
    IF n = 0 THEN {<<>>}
    ELSE UNION {{<<t>> \o rest : rest \in TrackLists(n - 1, k - Len(t))} :
                  t \in TracksUpTo(k)}

Formats == {0, 1}
Divisions == {480, 96}

RECURSIVE EventCount(_)
EventCount(tracks) ==
    IF tracks = <<>> THEN 0 ELSE Len(tracks[1]) + EventCount(Tail(tracks))

RECURSIVE ElementsWire(_)
ElementsWire(t) ==
    IF t = <<>> THEN <<0, 255, 47, 0>>
    ELSE t[1].delta \o t[1].body \o ElementsWire(Tail(t))

\* the regular files
Files ==
    {[format |-> f, division |-> d, tracks |-> ts, cut |-> 0,
      alien |-> 0, short |-> 0] :
        f \in Formats, d \in Divisions,
        ts \in UNION {TrackLists(n, MaxEvents) : n \in 1..MaxTracks}}

\* the regular file f, and the files made from it by one irregularity;
\* truncation of the file is tried on the files without events
FileChoices(f) ==
    {f}
    \cup {[f EXCEPT !.cut = c] :
             c \in IF EventCount(f.tracks) = 0 THEN {6, 18} ELSE {}}
    \cup {[f EXCEPT !.alien = a] : a \in 1..(Len(f.tracks) + 1)}
    \cup {[f EXCEPT !.short = s] :
             s \in {t \in {1, 4, 5, 6, 8} :
                      t <= Len(ElementsWire(f.tracks[Len(f.tracks)]))}}

\* a chunk the format does not define: ID 'XFIH', three bytes
AlienChunk == <<88, 70, 73, 72>> \o <<0, 0, 0, 3>> \o <<1, 2, 3>>

\* the chunks after the header, from track n on
RECURSIVE TracksWire(_, _)
TracksWire(f, n) ==
    IF n > Len(f.tracks)
    THEN IF f.alien = n THEN AlienChunk ELSE <<>>
    ELSE LET whole == ElementsWire(f.tracks[n])
             body == IF n = Len(f.tracks)
                     THEN SubSeq(whole, 1, Len(whole) - f.short) ELSE whole
         IN  (IF f.alien = n THEN AlienChunk ELSE <<>>)
             \o MTrk \o <<0, 0, 0, Len(body)>> \o body
             \o TracksWire(f, n + 1)

FileWire(f) ==
    LET whole == MThd \o <<0, 0, 0, 6>> \o <<0, f.format>>
                 \o <<0, Len(f.tracks) + (IF f.alien # 0 THEN 1 ELSE 0)>>
                 \o <<f.division \div 256, f.division % 256>>
                 \o TracksWire(f, 1)
    IN  IF f.cut = 0 THEN whole ELSE SubSeq(whole, 1, f.cut)

\* a whole file of events the library's event classes cover, a format 0
\* file holding one track
Canonical(f) ==
    /\ f.cut = 0 /\ f.alien = 0 /\ f.short = 0
    /\ \A i \in 1..Len(f.tracks) :
          \A j \in 1..Len(f.tracks[i]) : f.tracks[i][j].wellformed
    /\ f.format = 0 => Len(f.tracks) = 1

-----------------------------------------------------------------------------
(* Operations on a Sequence: parse a file, assign the format, emit.        *)

Op(name, arg) == [name |-> name, arg |-> arg]

\* sequence = Sequence.parse(source)
Parse ==
    /\ op.name = "idle"
    /\ \E regular \in Files :
          \E f \in FileChoices(regular) :
          \E r \in {Sequence_parse(FileWire(f))} :
              /\ input' = Some(f)
              /\ source' = FileWire(f)
              /\ events' = r.events
              /\ format' = r.format
              /\ division' = r.division
              /\ exc' = r.exc
    /\ op' = Op("parse", None)
    /\ UNCHANGED <<out, viVars, extVars>>

\* a sequence exists once a constructor or parse has returned one
HasSequence == op.name # "idle" /\ ~(op.name = "parse" /\ exc # "none")

FormatValues == {Some(0), Some(1), Some(2)}

\* sequence.format = value
SetFormat ==
    /\ HasSequence
    /\ \E value \in FormatValues :
          \E r \in {Sequence_format(events, format, value)} :
              /\ events' = r.events
              /\ format' = r.format
              /\ exc' = r.exc
              /\ op' = Op("format", value)
    /\ UNCHANGED <<input, source, division, out, viVars, extVars>>

\* out = bytes(sequence)
Emit ==
    /\ HasSequence
    /\ \E r \in {Sequence_bytes(events, format, division)} :
           /\ exc' = r.exc
           /\ out' = IF r.exc = "none" THEN Some(r.bytes) ELSE None
    /\ op' = Op("bytes", None)
    /\ UNCHANGED <<input, source, events, format, division, viVars, extVars>>

Init == SeqIdle /\ VarIntIdle /\ ExtIdle

Next == Parse \/ SetFormat \/ Emit

Spec == Init /\ [][Next]_vars

-----------------------------------------------------------------------------
(* A sequence built by hand: the constructor, list.append of constructed   *)
(* events, and assignments to the format.                                  *)

MaxAppend == 2

\* the track keyword of the appended events: none, the first track, a later
\* track
AppendTracks == {None, Some(0), Some(2)}

\* NoteOn(60, 100, channel=0, track=t) and Text('A', track=t)
AppendEvents ==
    {[Event("NoteOn", <<60, 100>>) EXCEPT !.channel = Some(0), !.track = t] :
        t \in AppendTracks}
    \cup {[Event("Text", <<65>>) EXCEPT !.track = t] : t \in AppendTracks}

\* sequence = Sequence(format=value)
SequenceNew ==
    /\ op.name = "idle"
    /\ \E value \in {None} \cup FormatValues :
          /\ format' = value
          /\ op' = Op("new", value)
    /\ events' = <<>>
    /\ division' = None
    /\ exc' = "none"
    /\ UNCHANGED <<input, source, out, viVars, extVars>>

\* sequence.append(event)
ListAppend ==
    /\ HasSequence
    /\ Len(events) < MaxAppend
    /\ \E event \in AppendEvents :
          /\ events' = Append(events, event)
          /\ op' = Op("append", None)
    /\ exc' = "none"
    /\ UNCHANGED <<input, source, format, division, out, viVars, extVars>>

NextEdit == SequenceNew \/ ListAppend \/ SetFormat

SpecEdit == Init /\ [][NextEdit]_vars

\* C2: every integer of [0, 0x0FFFFFFF] is encoded without error in 1 to 4
\* bytes, minimally (the first byte is never 0x80), with the continuation
\* bit set on every byte but the last, and parsing the encoding gives the
\* integer back and consumes exactly the encoding.
C2_VarIntRoundTrip ==
    (viBytes # None /\ viValue[1] \in 0..(VarIntLimit - 1)) =>
        LET b == viBytes[1].bytes
        IN  /\ viBytes[1].exc = "none"
            /\ Len(b) \in 1..4
            /\ b[1] # 128
            /\ \A i \in 1..Len(b) : b[i] \in 0..255
            /\ \A i \in 1..(Len(b) - 1) : b[i] >= 128
            /\ b[Len(b)] < 128
            /\ viParsed # None =>
                  /\ viParsed[1].exc = "none"
                  /\ viParsed[1].value = viValue[1]
                  /\ viParsed[1].rest = <<>>

\* the largest integer of the range went through the codec: four bytes
C2_Witness ==
    /\ viValue = Some(VarIntLimit - 1)
    /\ viParsed # None
    /\ Len(viBytes[1].bytes) = 4

-----------------------------------------------------------------------------
(* Properties of a parsed sequence.                                        *)

Parsed == op.name = "parse" /\ exc = "none"

\* the sequence still is what parse returned: only a conversion changes it,
\* and a conversion changes the format
AsParsed == input # None /\ format = Some(input[1].format)

RECURSIVE SumTicks(_, _, _)
SumTicks(evs, i, track) ==
    IF i = 0 THEN 0
    ELSE SumTicks(evs, i - 1, track)
         + (IF evs[i].track = track THEN evs[i].ticks ELSE 0)

\* the cumulative tick of the i-th event: the delta times of its track up
\* to and including its own
CumulativeOf(evs, i) == SumTicks(evs, i, evs[i].track)

\* the rank of an event among the events of one tick
Priority(e) ==
    CASE e.cls = "SetTempo" -> 0
      [] e.cls = "SetTimeSignature" -> 1
      [] e.cls = "ProgramChange" -> 2
      [] OTHER -> 3

\* C1: a canonical file of supported events parses without error, and
\* emitting the parsed sequence gives the bytes of the file again.
C1_ParseEmitRoundTrip ==
    (input # None /\ Canonical(input[1])) =>
        /\ op.name = "parse" => exc = "none"
        /\ (op.name = "bytes" /\ AsParsed) => out = Some(source)

\* C3: whatever the source, parse returns a sequence or raises MIDIError.
C3_ParseRaisesOnlyMIDIError ==
    op.name = "parse" => exc \in {"none", "MIDIError"}

\* C4: a whole file whose tracks hold nothing but their EndTrack parses to
\* a sequence of no events with the format and division of the header, and
\* that sequence is emitted as the bytes of the file.
C4_EmptyTracks ==
    (/\ input # None
     /\ input[1].cut = 0 /\ input[1].alien = 0 /\ input[1].short = 0
     /\ EventCount(input[1].tracks) = 0) =>
        /\ op.name = "parse" =>
              /\ exc = "none"
              /\ events = <<>>
              /\ format = Some(input[1].format)
              /\ division = Some(TimeDivisionPPQN(input[1].division))
        /\ (op.name = "bytes" /\ AsParsed) => out = Some(source)

\* C5: the list parse returns holds no SetTempo, SetTimeSignature,
\* ProgramChange or EndTrack.
C5_NoDerivedEvents ==
    Parsed =>
        \A i \in 1..Len(events) :
            events[i].cls \notin {"SetTempo", "SetTimeSignature",
                                  "ProgramChange", "EndTrack"}

\* C6: the list parse returns is in non-decreasing order of cumulative
\* tick, and at one tick SetTempo comes before SetTimeSignature, before
\* ProgramChange, before every other event.
C6_SortedWithMetaPriority ==
    Parsed =>
        \A i, j \in 1..Len(events) :
            i < j =>
                /\ CumulativeOf(events, i) <= CumulativeOf(events, j)
                /\ CumulativeOf(events, i) = CumulativeOf(events, j)
                      => Priority(events[i]) <= Priority(events[j])

\* the SetTempo events at or before the tick of the i-th event
TemposUpTo(evs, i) ==
    {j \in 1..Len(evs) : /\ evs[j].cls = "SetTempo"
                         /\ CumulativeOf(evs, j) <= CumulativeOf(evs, i)}

\* of these, the ones at the latest tick
LatestTempos(evs, i) ==
    {j \in TemposUpTo(evs, i) :
        \A k \in TemposUpTo(evs, i) :
            CumulativeOf(evs, k) <= CumulativeOf(evs, j)}

\* C7: after parse every event other than a SetTempo carries the tempo of
\* the latest SetTempo at or before its own cumulative tick, on any track,
\* and 120 BPM when there is none.
C7_TempoInForce ==
    Parsed =>
        \A i \in 1..Len(events) :
            events[i].cls # "SetTempo" =>
                IF TemposUpTo(events, i) = {}
                THEN events[i].tempo = Some(Tempo)
                ELSE \E j \in LatestTempos(events, i) :
                        events[i].tempo = events[j].tempo

\* the ProgramChange events before the i-th event on its track and channel
ProgramsBefore(evs, i) ==
    {j \in 1..(i - 1) : /\ evs[j].cls = "ProgramChange"
                        /\ evs[j].track = evs[i].track
                        /\ evs[j].channel = evs[i].channel}

\* C8: after parse every channel event carries the program of the last
\* ProgramChange before it on its track and channel, and Program(1) when
\* there is none.
C8_ProgramInForce ==
    Parsed =>
        \A i \in 1..Len(events) :
            (IsChannelEvent(events[i]) /\ events[i].cls # "ProgramChange") =>
                LET before == ProgramsBefore(events, i)
                IN  IF before = {} THEN events[i].program = Some(1)
                    ELSE events[i].program =
                            events[CHOOSE j \in before :
                                      \A k \in before : k <= j].program

-----------------------------------------------------------------------------
(* Properties of the format setter.                                        *)

Seen(evs, i, cumulative) ==
    <<evs[i].cls, evs[i].args, evs[i].channel, evs[i].program, cumulative>>

\* C10: when a parsed format 0 sequence has been set to format 1 and
\* emitted, parsing the emitted bytes gives the events of the sequence, each
\* at the cumulative tick it had before the conversion (on the one track of
\* the format 0 file, the sum of the delta times up to it).
C10_ConvertedRoundTrip ==
    (/\ op.name = "bytes" /\ exc = "none"
     /\ input # None /\ input[1].format = 0 /\ format = Some(1)) =>
        \E r \in {Sequence_parse(out[1])} :
            /\ r.exc = "none"
            /\ Len(r.events) = Len(events)
            /\ {Seen(r.events, i, CumulativeOf(r.events, i)) :
                    i \in 1..Len(r.events)}
               = {Seen(events, i, SumTicks(events, i, events[i].track)
                                  + SumTicks(events, i,
                                       IF IsMetaEvent(events[i])
                                       THEN Some(1) ELSE Some(0))) :
                    i \in 1..Len(events)}

-----------------------------------------------------------------------------
(* Chunk.parse on the kinds of source it accepts.  A source is its bytes,  *)
(* the position of its next unread byte, and its kind: "bytes" is an       *)
(* iterator over single bytes, "blocks" an iterator that yields blocks of  *)
(* BlockSize bytes, "file" a binary file object (io.IOBase), which is      *)
(* seekable and whose next() yields a line, up to and including the next   *)
(* byte 10.                                                                *)

BlockSize == 3
MaxCalls == 3

Source(kind, data) == [kind |-> kind, data |-> data, pos |-> 0]

\* the index of the last byte of the line that starts at from
RECURSIVE LineEnd(_, _)
LineEnd(data, from) ==
    IF from >= Len(data) \/ data[from] = 10 THEN from
    ELSE LineEnd(data, from + 1)

\* next(source): the item, and the source after it; None at the end
NextItem(src) ==
    IF src.pos >= Len(src.data) THEN None
    ELSE LET first == src.pos + 1
             last == CASE src.kind = "bytes" -> first
                       [] src.kind = "blocks" ->
                             IF first + BlockSize - 1 < Len(src.data)
                             THEN first + BlockSize - 1 ELSE Len(src.data)
                       [] src.kind = "file" -> LineEnd(src.data, first)
         IN  Some([item |-> SubSeq(src.data, first, last),
                   source |-> [src EXCEPT !.pos = last]])

\* int.from_bytes(chunk[4:8], 'big'); every length from 2^30 on, longer
\* than any source here, is kept as 2^30
ChunkLength(b) == IF b[1] >= 64 THEN Pow(2, 30) ELSE FromBytes(b)

ChunkFail(src) ==
    [exc |-> "MIDIError", id |-> <<>>, data |-> <<>>, source |-> src]

\* source.seek(start + length), for a file object
Seek(src, to) == IF src.kind = "file" THEN [src EXCEPT !.pos = to] ELSE src

\* the loop of Chunk.parse without its seek
RECURSIVE ChunkLoopNoSeek(_, _, _, _, _, _)
ChunkLoopNoSeek(src, chunk, mode, length, id, start) ==
    Bind(NextItem(src), LAMBDA next :
        IF next = None THEN ChunkFail(src)
        ELSE LET c == chunk \o next[1].item
                 after == next[1].source
                 idDone == mode = "id" /\ Len(c) >= 4
                 lenDone == (idDone \/ mode = "len") /\ Len(c) >= 8
                 total == IF lenDone THEN ChunkLength(Slice(c, 4, 8)) + 8
                          ELSE length
                 dataDone == (lenDone \/ mode = "data") /\ Len(c) >= total
             IN  IF idDone /\ \E i \in 1..4 : c[i] >= 128
                 THEN ChunkFail(after)
                 ELSE IF idDone /\ id # None /\ id[1] # Slice(c, 0, 4)
                 THEN ChunkFail(after)
                 ELSE IF dataDone
                 THEN [exc |-> "none", id |-> Slice(c, 0, 4),
                       data |-> Slice(c, 8, total), source |-> after]
                 ELSE ChunkLoopNoSeek(after, c,
                          IF lenDone THEN "data"
                          ELSE IF idDone THEN "len" ELSE mode,
                          total, id, start))

\* the loop of Chunk.parse (lines 1742-1775)
RECURSIVE ChunkLoop(_, _, _, _, _, _)
ChunkLoop(src, chunk, mode, length, id, start) ==
    Bind(NextItem(src), LAMBDA next :
        IF next = None THEN ChunkFail(src)
        ELSE LET c == chunk \o next[1].item
                 after == next[1].source
                 idDone == mode = "id" /\ Len(c) >= 4
                 lenDone == (idDone \/ mode = "len") /\ Len(c) >= 8
                 total == IF lenDone THEN ChunkLength(Slice(c, 4, 8)) + 8
                          ELSE length
                 dataDone == (lenDone \/ mode = "data") /\ Len(c) >= total
             IN  IF idDone /\ \E i \in 1..4 : c[i] >= 128
                 THEN ChunkFail(after)
                 ELSE IF idDone /\ id # None /\ id[1] # Slice(c, 0, 4)
                 THEN ChunkFail(after)
                 ELSE IF dataDone
                 THEN [exc |-> "none", id |-> Slice(c, 0, 4),
                       data |-> Slice(c, 8, total),
                       source |-> Seek(after, start + total)]
                 ELSE ChunkLoop(after, c,
                          IF lenDone THEN "data"
                          ELSE IF idDone THEN "len" ELSE mode,
                          total, id, start))

\* Chunk.parse(source, id)
Chunk_parse_source(src, id) == ChunkLoop(src, <<>>, "id", 8, id, src.pos)

\* chunk IDs: the two of the format, and IDs with a control byte, with
\* byte 0x7F and with a byte above 0x7F
ChunkIds ==
    {MThd, MTrk, <<1, 77, 84, 114>>, <<77, 84, 114, 127>>,
     <<77, 84, 114, 200>>}

ChunkPayloads == {<<>>, <<10>>, <<1, 2, 3>>, <<1, 10, 2, 10, 3>>}

ChunkWires == {Chunk_raw(id, data) : id \in ChunkIds, data \in ChunkPayloads}

\* the first cut bytes of b, all of b when cut is 0
Cut(b, cut) == IF cut = 0 \/ cut >= Len(b) THEN b ELSE SubSeq(b, 1, cut)

\* one chunk or two chunks in a row, whole or cut short
StreamData ==
    {Cut(w, cut) : w \in ChunkWires, cut \in {0, 3, 6, 9}}
    \cup {a \o Cut(b, cut) : a \in ChunkWires, b \in ChunkWires,
                             cut \in {0, 6}}

SourceKinds == {"bytes", "blocks", "file"}

RequiredIds == {None, Some(MThd), Some(MTrk)}

\* chunk = Chunk.parse(stream, id)
ChunkParse ==
    /\ stream # None
    /\ Len(chunks) < MaxCalls
    /\ \E id \in RequiredIds :
          \E r \in {Chunk_parse_source(stream[1], id)} :
              /\ stream' = Some(r.source)
              /\ chunks' = Append(chunks,
                               [exc |-> r.exc, id |-> r.id, data |-> r.data,
                                required |-> id, start |-> stream[1].pos])
    /\ UNCHANGED <<seqVars, viVars, rawVars, evVars, taVars, pkgVars>>

InitChunk ==
    /\ SeqIdle
    /\ VarIntIdle
    /\ RawIdle
    /\ EvIdle
    /\ TaIdle
    /\ PkgIdle
    /\ stream \in {Some(Source(kind, data)) :
                       kind \in SourceKinds, data \in StreamData}
    /\ chunks = <<>>

NextChunk == ChunkParse

SpecChunk == InitChunk /\ [][NextChunk]_vars

\* the position of the source after the i-th call
PosAfter(i) ==
    IF i < Len(chunks) THEN chunks[i + 1].start ELSE stream[1].pos

\* C11: a call of Chunk.parse at offset start of a source that holds an ID
\* of printable ASCII (the required one, if one is required), a length and
\* that many bytes returns without error; whenever it returns, it returns
\* the four ID bytes at start and exactly the declared number of payload
\* bytes after the length, whether the source yields single bytes, blocks
\* or lines; and a file object (like an iterator over single bytes) is left
\* at start + 8 + length.
C11_ChunkFraming ==
    stream # None =>
        \A i \in 1..Len(chunks) :
            LET d == stream[1].data
                start == chunks[i].start
                declared == ChunkLength(Slice(d, start + 4, start + 8))
                whole == /\ Len(d) >= start + 8
                         /\ Len(d) >= start + 8 + declared
            IN  /\ (/\ whole
                    /\ \A k \in 1..4 : d[start + k] \in 32..126
                    /\ chunks[i].required \in
                           {None, Some(Slice(d, start, start + 4))})
                      => chunks[i].exc = "none"
                /\ chunks[i].exc = "none" =>
                      /\ whole
                      /\ chunks[i].id = Slice(d, start, start + 4)
                      /\ Len(chunks[i].data) = declared
                      /\ chunks[i].data
                            = Slice(d, start + 8, start + 8 + declared)
                      /\ stream[1].kind \in {"file", "bytes"}
                            => PosAfter(i) = start + 8 + declared

\* a file object whose first line runs past the end of the first chunk:
\* both chunks were returned, the second from the first byte after the first
C11_Witness ==
    /\ stream # None
    /\ stream[1].kind = "file"
    /\ stream[1].data = Chunk_raw(MThd, <<1, 2, 3>>)
                        \o Chunk_raw(MTrk, <<1, 10, 2, 10, 3>>)
    /\ Len(chunks) = 2
    /\ chunks[1].exc = "none" /\ chunks[1].data = <<1, 2, 3>>
    /\ chunks[2].exc = "none" /\ chunks[2].data = <<1, 10, 2, 10, 3>>
    /\ chunks[2].start = 11

\* C12: Chunk.parse never returns a chunk whose ID holds a byte outside
\* printable ASCII, 0x20 .. 0x7E.
C12_PrintableChunkId ==
    \A i \in 1..Len(chunks) :
        chunks[i].exc = "none" =>
            \A k \in 1..4 : chunks[i].id[k] \in 32..126

-----------------------------------------------------------------------------
(* Sequence.parse on files with a chunk of another ID, or a short track.   *)

\* C13: parsing a file that holds a chunk of another ID among the chunks
\* the header counts gives what parsing the file without that chunk, and
\* with a header count of one less, gives: the same events with the same
\* track numbers, format and division, and an error only if that file
\* raises it too.
C13_UnknownChunkSkipped ==
    (op.name = "parse" /\ input[1].alien # 0) =>
        \E r \in {Sequence_parse(FileWire([input[1] EXCEPT !.alien = 0]))} :
            /\ exc = r.exc
            /\ events = r.events
            /\ format = r.format
            /\ division = r.division

\* a chunk of another ID between two tracks that both hold an event: the
\* events are on tracks 0 and 1
C13_Witness ==
    /\ op.name = "parse"
    /\ exc = "none"
    /\ input[1].alien = 2
    /\ Len(input[1].tracks) = 2
    /\ \E i \in 1..Len(events) : events[i].track = Some(0)
    /\ \E i \in 1..Len(events) : events[i].track = Some(1)

\* C14: a file whose last MTrk chunk holds events the library supports and
\* ends before its EndTrack is complete makes parse raise MIDIError.
C14_ShortTrackIsMIDIError ==
    (/\ op.name = "parse"
     /\ input[1].short # 0
     /\ \A i \in 1..Len(input[1].tracks) :
           \A j \in 1..Len(input[1].tracks[i]) :
               input[1].tracks[i][j].wellformed) =>
        exc = "MIDIError"

-----------------------------------------------------------------------------
(* _var_int_parse on any byte source, and _var_int_bytes on any integer.   *)

MaxSourceLen == 5

\* bytes with and without the continuation bit
SourceBytes == {5, 128, 255}

VarIntSources == UNION {[1..n -> SourceBytes] : n \in 0..MaxSourceLen}

\* viDecoded = _var_int_parse(viSource)
VarIntDecode ==
    /\ viSource # None
    /\ viDecoded = None
    /\ viDecoded' = Some(_var_int_parse(viSource[1]))
    /\ UNCHANGED <<viSource, seqVars, viVars, chunkVars, evVars, taVars, pkgVars>>

InitVarIntSource ==
    /\ SeqIdle
    /\ VarIntIdle
    /\ ChunkIdle
    /\ EvIdle
    /\ TaIdle
    /\ PkgIdle
    /\ viSource \in {Some(s) : s \in VarIntSources}
    /\ viDecoded = None

NextVarIntSource == VarIntDecode \/ VarIntBytes

SpecVarIntSource == InitVarIntSource /\ [][NextVarIntSource]_vars

\* the first n bytes of s exist and all have the continuation bit
Continued(s, n) == Len(s) >= n /\ \A i \in 1..n : s[i] >= 128

\* C15: decoding a source of 0 to 3 bytes that all have the continuation
\* bit raises MIDIError.
C15_TruncatedVarIntIsMIDIError ==
    (viDecoded # None /\ Len(viSource[1]) <= 3
     /\ Continued(viSource[1], Len(viSource[1]))) =>
        viDecoded[1].exc = "MIDIError"

\* C16: decoding a source whose first five bytes all have the continuation
\* bit raises MIDIError, and encoding an integer above 0x0FFFFFFF raises
\* MIDIError and gives no bytes.
C16_VarIntTooLong ==
    /\ (viDecoded # None /\ Continued(viSource[1], 5)) =>
          viDecoded[1].exc = "MIDIError"
    /\ (viBytes # None /\ viValue[1] >= VarIntLimit) =>
          (viBytes[1].exc = "MIDIError" /\ viBytes[1].bytes = <<>>)

\* five continuation bytes were decoded and 0x10000000 was encoded
C16_Witness ==
    /\ viDecoded # None
    /\ Continued(viSource[1], 5)
    /\ viBytes # None
    /\ viValue = Some(VarIntLimit)

-----------------------------------------------------------------------------
(* Event.parse on one event of a track, and bytes() of the event it        *)
(* returned.                                                               *)

MaxData == 2

\* status bytes: data bytes in status position, the seven channel event
\* types, system common and real time bytes, SysEx and meta
StatusBytes ==
    {0, 60, 127, 128, 144, 160, 176, 192, 208, 224, 239,
     240, 241, 246, 247, 248, 254, 255}

DataBytes == {0, 64, 127}

EventData == UNION {[1..n -> DataBytes] : n \in 0..MaxData}

\* meta events, and SysEx events as the format lays them out: status,
\* length, payload
EventBodies ==
    {<<status>> \o data : status \in StatusBytes, data \in EventData}
    \cup {<<255, 1, 1, 65>>, <<255, 47, 0>>,
          <<240, 2, 1, 247>>, <<240, 0>>, <<247, 1, 5>>}

EventWires ==
    {delta \o body : delta \in {<<0>>, <<131, 96>>}, body \in EventBodies}

\* parsed = Event.parse(wire)
EventParse ==
    /\ wire # None
    /\ parsed = None
    /\ parsed' = Some(Event_parse(wire[1]))
    /\ UNCHANGED <<wire, emitted, seqVars, viVars, chunkVars, rawVars,
                   taVars, pkgVars>>

\* emitted = bytes(event), for the event that Event.parse returned
EventEmit ==
    /\ parsed # None
    /\ parsed[1].exc = "none"
    /\ emitted = None
    /\ emitted' = Some(EventBytes(parsed[1].event))
    /\ UNCHANGED <<wire, parsed, seqVars, viVars, chunkVars, rawVars,
                   taVars, pkgVars>>

InitEvent ==
    /\ SeqIdle
    /\ VarIntIdle
    /\ ChunkIdle
    /\ RawIdle
    /\ TaIdle
    /\ PkgIdle
    /\ wire \in {Some(w) : w \in EventWires}
    /\ parsed = None
    /\ emitted = None

NextEvent == EventParse \/ EventEmit

SpecEvent == InitEvent /\ [][NextEvent]_vars

\* the status byte of the event on the wire: the byte after the delta time
StatusOf(w) == IF w[1] < 128 THEN w[2] ELSE w[3]

\* the bytes after the status byte
AfterStatus(w) == IF w[1] < 128 THEN SubSeq(w, 3, Len(w))
                  ELSE SubSeq(w, 4, Len(w))

\* C17: Event.parse raises MIDIError, and returns no event, when the status
\* byte is not 0xFF, 0xF0 or 0xF7 and its high nibble is not one of 0x8 ..
\* 0xE; a data byte in status position is not taken as running status.
C17_UnknownStatusIsMIDIError ==
    (parsed # None
     /\ StatusOf(wire[1]) \notin {255, 240, 247}
     /\ (StatusOf(wire[1]) \div 16) \notin 8..14) =>
        /\ parsed[1].exc = "MIDIError"
        /\ parsed[1].event.cls = ""

\* a data byte in status position, followed by two data bytes
C17_Witness ==
    /\ wire = Some(<<0, 60, 64, 0>>)
    /\ parsed # None
    /\ parsed[1].exc = "MIDIError"

\* a SysEx event on the wire: status, length, as many bytes
IsSysExWire(w) ==
    /\ StatusOf(w) \in {240, 247}
    /\ AfterStatus(w) # <<>>
    /\ AfterStatus(w)[1] = Len(AfterStatus(w)) - 1

\* C18: a SysEx event parses to an event that holds its status and its
\* payload, and bytes() of that event gives the event's bytes on the wire.
C18_SysExRoundTrip ==
    (parsed # None /\ IsSysExWire(wire[1])) =>
        /\ parsed[1].exc = "none"
        /\ parsed[1].event.args
              = <<StatusOf(wire[1]), Tail(AfterStatus(wire[1]))>>
        /\ emitted # None =>
              (emitted[1].exc = "none" /\ emitted[1].bytes = wire[1])

\* C19: a PitchBend with data bytes lsb, msb parses to the value
\* (w - 8192) / 8192 with w = lsb | (msb << 7), held as its numerator
\* w - 8192, and bytes() of the parsed event gives the bytes on the wire.
C19_PitchBendRoundTrip ==
    (parsed # None /\ StatusOf(wire[1]) \div 16 = 14
     /\ Len(AfterStatus(wire[1])) = 2) =>
        /\ parsed[1].exc = "none"
        /\ parsed[1].event.cls = "PitchBend"
        /\ parsed[1].event.args
              = <<AfterStatus(wire[1])[1] + AfterStatus(wire[1])[2] * 128
                  - 8192>>
        /\ emitted # None =>
              (emitted[1].exc = "none" /\ emitted[1].bytes = wire[1])

-----------------------------------------------------------------------------
(* TimeAbsolute and its TimeSpecification.  A position in whole notes      *)
(* (_note, node.note) is a float in the code; here it is the exact number  *)
(* of NoteUnit-ths of a whole note.  Both a tick (1/1920) and a pulse of   *)
(* the default division (1/1024) are whole multiples of that unit.         *)

NoteUnit == 8 * 1920

\* TimeSpecificationNode(): the start of the piece, in 4/4
TimeSpecificationNode ==
    [note |-> 0, bar |-> 1, beat |-> 1, tick |-> 1, cumulative |-> 0,
     signature |-> TimeSignature, division |-> TimeDivisionPPQN(256),
     tempo |-> Fraction(84, 1)]

\* a node whose attributes the caller has set: a signature from a position
NodeAt(note, bar, numerator, denominator, cumulative) ==
    [TimeSpecificationNode EXCEPT
        !.note = note, !.bar = bar, !.cumulative = cumulative,
        !.signature = [TimeSignature EXCEPT !.numerator = numerator,
                                            !.denominator = denominator]]

\* TimeSpecification.triple: the last node at or before (bar, beat, tick)
RECURSIVE TimeSpecification_triple(_, _)
TimeSpecification_triple(spec, value) ==
    IF spec = <<>> THEN None
    ELSE LET node == spec[Len(spec)]
         IN  IF \/ node.bar < value[1]
                \/ node.bar = value[1] /\ node.beat < value[2]
                \/ node.bar = value[1] /\ node.beat = value[2]
                   /\ node.tick <= value[3]
             THEN Some(node)
             ELSE TimeSpecification_triple(SubSeq(spec, 1, Len(spec) - 1),
                                           value)

\* TimeAbsolute(specification=specification)
TimeAbsolute(specification) ==
    [node |-> None, cumulative |-> None, note |-> 0,
     specification |-> specification]

\* the setter of TimeAbsolute.triple: the exception, and the object after
TimeAbsolute_triple(self, value) ==
    LET bar == value[1]
        beat == value[2]
        tick == value[3]
        fail == [exc |-> "MIDIError", self |-> self]
    IN  IF bar < 1 \/ beat < 1 \/ tick < 1 THEN fail
        ELSE IF self.specification = None THEN fail
        ELSE Bind(TimeSpecification_triple(self.specification[1], value),
                  LAMBDA found :
             IF found = None THEN fail
             ELSE LET node == found[1]
                      per == 1920 \div node.signature.denominator
                  IN  IF beat > node.signature.numerator THEN fail
                      ELSE IF tick > per THEN fail
                      ELSE [exc |-> "none",
                            self |-> [self EXCEPT !.note =
                                ((bar - 1) * node.signature.numerator * per
                                 + (beat - 1) * per + (tick - 1))
                                * (NoteUnit \div 1920)]])

\* specifications: none, the empty list, the default node, a 3/8 node, and
\* 4/4 followed by 6/8 from bar 3
Specifications ==
    {None, Some(<<>>), Some(<<TimeSpecificationNode>>),
     Some(<<NodeAt(0, 1, 3, 8, 0)>>),
     Some(<<TimeSpecificationNode, NodeAt(2 * NoteUnit, 3, 6, 8, 2048)>>)}

Bars == {0, 1, 3}
Beats == {0, 1, 2, 4, 5, 7}
Ticks == {-1, 0, 1, 240, 241, 480, 481}

\* time.triple = (bar, beat, tick), the three drawn from the given sets
SetTripleOn(bars, beats, ticks) ==
    /\ ta # None
    /\ \E bar \in bars, beat \in beats, tick \in ticks :
          \E r \in {TimeAbsolute_triple(ta[1], <<bar, beat, tick>>)} :
              /\ ta' = Some(r.self)
              /\ taOp' = Some([name |-> "triple", arg |-> <<bar, beat, tick>>,
                               exc |-> r.exc])
    /\ UNCHANGED <<seqVars, viVars, chunkVars, rawVars, evVars,
                   pkgVars>>

SetTriple == SetTripleOn(Bars, Beats, Ticks)

InitTime ==
    /\ SeqIdle
    /\ VarIntIdle
    /\ ChunkIdle
    /\ RawIdle
    /\ EvIdle
    /\ PkgIdle
    /\ ta \in {Some(TimeAbsolute(specification)) :
                  specification \in Specifications}
    /\ taOp = None

NextTime == SetTriple

SpecTime == InitTime /\ [][NextTime]_vars

\* C20: with a specification that has a node for the triple, the assignment
\* triple = (bar, beat, tick) raises MIDIError exactly when bar < 1, or
\* beat < 1, or tick < 0, or beat is above the numerator of the node's
\* signature, or tick is 1920 / denominator or more; and an assignment that
\* raises leaves the position as it was.
C20_TripleRange ==
    [][(/\ taOp' # None
        /\ taOp'[1].name = "triple"
        /\ ta[1].specification # None
        /\ TimeSpecification_triple(ta[1].specification[1], taOp'[1].arg)
              # None) =>
          LET bar == taOp'[1].arg[1]
              beat == taOp'[1].arg[2]
              tick == taOp'[1].arg[3]
              node == TimeSpecification_triple(ta[1].specification[1],
                                               taOp'[1].arg)[1]
          IN  /\ taOp'[1].exc = "MIDIError"
                    <=> \/ bar < 1 \/ beat < 1 \/ tick < 0
                        \/ beat > node.signature.numerator
                        \/ tick * node.signature.denominator >= 1920
              /\ taOp'[1].exc = "MIDIError" => ta' = ta]_vars

-----------------------------------------------------------------------------
(* Reading a TimeAbsolute.  The getters go through the note property,      *)
(* which resolves a stored cumulative and so may change the object: each   *)
(* getter gives the object after the read and the value read.  The floor   *)
(* and round of the code act on floats; the arithmetic here is exact,      *)
(* which is the same thing where the position is a binary fraction of a    *)
(* whole note, as (tick - 1) / 1920 with tick - 1 a multiple of 15 and     *)
(* pulses / 1024 are.                                                      *)

\* a lookup that walks the list from its start
RECURSIVE TimeSpecification_lookup_forward(_, _, _)
TimeSpecification_lookup_forward(spec, value, key) ==
    IF spec = <<>> THEN None
    ELSE IF spec[1][key] <= value THEN Some(spec[1])
    ELSE TimeSpecification_lookup_forward(Tail(spec), value, key)

\* TimeSpecification._lookup: the last node whose key is at most the value
RECURSIVE TimeSpecification_lookup(_, _, _)
TimeSpecification_lookup(spec, value, key) ==
    IF spec = <<>> THEN None
    ELSE IF spec[Len(spec)][key] <= value THEN Some(spec[Len(spec)])
    ELSE TimeSpecification_lookup(SubSeq(spec, 1, Len(spec) - 1), value, key)

\* TimeSpecificationNode.ppn, pulses per whole note, as a fraction
ppn(node) ==
    IF node.division.mode = "ppqn"
    THEN Fraction(node.division.ppqn[1] * 4, 1)
    ELSE Fraction(node.division.frames[1] * node.division.subframes[1]
                      * 240 * node.tempo.den,
                  node.tempo.num)

\* a cumulative setter that counts the pulses from zero instead of from the
\* node's cumulative
TimeAbsolute_cumulative_set_from_zero(self, value) ==
    IF self.specification = None
    THEN [self EXCEPT !.cumulative = Some(value)]
    ELSE Bind(TimeSpecification_lookup(self.specification[1], value,
                                       "cumulative"),
              LAMBDA found :
         IF found = None THEN [self EXCEPT !.cumulative = Some(value)]
         ELSE [self EXCEPT
                  !.cumulative = None,
                  !.note = found[1].note
                      + (value * NoteUnit * ppn(found[1]).den)
                            \div ppn(found[1]).num])

\* the setter of TimeAbsolute.cumulative: the object after
TimeAbsolute_cumulative_set(self, value) ==
    IF self.specification = None
    THEN [self EXCEPT !.cumulative = Some(value)]
    ELSE Bind(TimeSpecification_lookup(self.specification[1], value,
                                       "cumulative"),
              LAMBDA found :
         IF found = None THEN [self EXCEPT !.cumulative = Some(value)]
         ELSE [self EXCEPT
                  !.cumulative = None,
                  !.note = found[1].note
                      + ((value - found[1].cumulative) * NoteUnit
                         * ppn(found[1]).den) \div ppn(found[1]).num])

\* the getter of TimeAbsolute.note: the object after; the value is its note
TimeAbsolute_note(self) ==
    IF self.note = 0 /\ self.cumulative # None
    THEN TimeAbsolute_cumulative_set(self, self.cumulative[1])
    ELSE self

\* TimeAbsolute.node: the node set aside by a caller, or the one looked up
TimeAbsolute_node(self) ==
    IF self.node # None THEN self.node
    ELSE IF self.specification = None THEN None
    ELSE TimeSpecification_lookup(self.specification[1],
                                  TimeAbsolute_note(self).note, "note")

\* the object after a getter that asks for the node and then for the note
AfterRead(self) ==
    IF TimeAbsolute_node(self) = None /\ self.specification = None THEN self
    ELSE TimeAbsolute_note(self)

\* the getter of TimeAbsolute.bar: None without a node
TimeAbsolute_bar(self) ==
    Bind(TimeAbsolute_node(self), LAMBDA found :
        IF found = None THEN None
        ELSE LET node == found[1]
                 note == TimeAbsolute_note(self).note - node.note
                 npm == (node.signature.numerator * NoteUnit)
                            \div node.signature.denominator
             IN  Some(note \div npm + node.bar))

\* the getter of TimeAbsolute.beat
TimeAbsolute_beat(self) ==
    Bind(TimeAbsolute_node(self), LAMBDA found :
        IF found = None THEN None
        ELSE LET node == found[1]
                 note == TimeAbsolute_note(self).note - node.note
                 npm == (node.signature.numerator * NoteUnit)
                            \div node.signature.denominator
                 npb == node.signature.denominator
             IN  Some(((note % npm) * npb) \div NoteUnit + node.beat))

\* the getter of TimeAbsolute.tick
TimeAbsolute_tick(self) ==
    Bind(TimeAbsolute_node(self), LAMBDA found :
        IF found = None THEN None
        ELSE LET node == found[1]
                 note == TimeAbsolute_note(self).note - node.note
                 mod == note % (NoteUnit \div node.signature.denominator)
             IN  Some((mod * 1920) \div NoteUnit + node.tick))

\* Python's round() of n/d for d > 0 and any n
RoundSigned(n, d) == IF n >= 0 THEN Round(n, d) ELSE 0 - Round(0 - n, d)

\* the getter of TimeAbsolute.cumulative: the stored one without a node
TimeAbsolute_cumulative(self) ==
    Bind(TimeAbsolute_node(self), LAMBDA found :
        IF found = None
        THEN [self |-> AfterRead(self), value |-> self.cumulative]
        ELSE LET node == found[1]
                 note == TimeAbsolute_note(self).note - node.note
             IN  [self |-> AfterRead(self),
                  value |-> Some(RoundSigned(
                      note * ppn(node).num
                          + node.cumulative * NoteUnit * ppn(node).den,
                      NoteUnit * ppn(node).den))])

\* the getter of TimeAbsolute.triple: the node is set aside for the three
\* reads and dropped after them; without a node the three are None, kept
\* here as one None
TimeAbsolute_triple_get(self) ==
    IF self.specification = None
    THEN [exc |-> "AttributeError", self |-> self, value |-> None]
    ELSE Bind(TimeAbsolute_note(self), LAMBDA read :
         Bind([read EXCEPT !.node =
                  TimeSpecification_lookup(read.specification[1], read.note,
                                           "note")],
              LAMBDA held :
              [exc |-> "none",
               self |-> [held EXCEPT !.node = None],
               value |-> IF TimeAbsolute_node(held) = None THEN None
                         ELSE Some(<<TimeAbsolute_bar(held)[1],
                                     TimeAbsolute_beat(held)[1],
                                     TimeAbsolute_tick(held)[1]>>)]))

\* ticks whose offset (tick - 1) / 1920 is a binary fraction, up to the
\* last such tick of a beat in /8 and in /4, and the first tick after a beat
BinaryTicks == {1, 16, 226, 241, 466, 481}

\* time.triple, read
GetTriple ==
    /\ ta # None
    /\ \E r \in {TimeAbsolute_triple_get(ta[1])} :
          /\ ta' = Some(r.self)
          /\ taOp' = Some([name |-> "triple_get", value |-> r.value,
                           exc |-> r.exc])
    /\ UNCHANGED <<seqVars, viVars, chunkVars, rawVars, evVars,
                   pkgVars>>

\* time.triple = time.triple; comparing the None of a missing node with 1
\* is a TypeError
ReassignTriple ==
    /\ ta # None
    /\ \E got \in {TimeAbsolute_triple_get(ta[1])} :
          IF got.exc # "none" \/ got.value = None
          THEN /\ ta' = Some(got.self)
               /\ taOp' = Some([name |-> "triple_reassign",
                                arg |-> got.value,
                                exc |-> IF got.exc # "none" THEN got.exc
                                        ELSE "TypeError"])
          ELSE \E r \in {TimeAbsolute_triple(got.self, got.value[1])} :
               /\ ta' = Some(r.self)
               /\ taOp' = Some([name |-> "triple_reassign",
                                arg |-> got.value, exc |-> r.exc])
    /\ UNCHANGED <<seqVars, viVars, chunkVars, rawVars, evVars,
                   pkgVars>>

NextTriple ==
    \/ SetTripleOn(Bars, Beats, BinaryTicks)
    \/ GetTriple
    \/ ReassignTriple

SpecTriple == InitTime /\ [][NextTriple]_vars

\* the note a step starts from has a node in the specification
Governed(self) ==
    /\ self.specification # None
    /\ TimeAbsolute_node(self) # None

\* C21: with a specification that has a node for the position, assigning
\* triple = triple raises nothing and leaves the note as it was, and the
\* triple read right after an accepted assignment of (bar, beat, tick) is
\* (bar, beat, tick).
C21_TripleRoundTrip ==
    [][/\ (taOp'[1].name = "triple_reassign" /\ Governed(ta[1])) =>
              (taOp'[1].exc = "none" /\ ta'[1].note = ta[1].note)
       /\ (/\ taOp # None
           /\ taOp[1].name = "triple"
           /\ taOp[1].exc = "none"
           /\ taOp'[1].name = "triple_get") =>
              taOp'[1].value = Some(taOp[1].arg)]_vars

-----------------------------------------------------------------------------
(* The cumulative pulse count of a TimeAbsolute, with the specification    *)
(* and the note assigned from outside.                                     *)

\* the specifications above, and 4/4 at 256 PPQN followed from bar 3 by 6/8
\* at 128 PPQN
CumulativeSpecifications ==
    Specifications \cup
    {Some(<<TimeSpecificationNode,
            [NodeAt(2 * NoteUnit, 3, 6, 8, 2048) EXCEPT
                !.division = TimeDivisionPPQN(128)]>>)}

Cumulatives == {0, 1, 1024, 2047, 2048, 2049, 2560}

\* note values: the start, a half note, two and a quarter whole notes
Notes == {0, NoteUnit \div 2, (9 * NoteUnit) \div 4}

\* time.cumulative = c
SetCumulative ==
    /\ ta # None
    /\ \E c \in Cumulatives :
          /\ ta' = Some(TimeAbsolute_cumulative_set(ta[1], c))
          /\ taOp' = Some([name |-> "cumulative", arg |-> c, exc |-> "none"])
    /\ UNCHANGED <<seqVars, viVars, chunkVars, rawVars, evVars,
                   pkgVars>>

\* time.cumulative, read
GetCumulative ==
    /\ ta # None
    /\ \E r \in {TimeAbsolute_cumulative(ta[1])} :
          /\ ta' = Some(r.self)
          /\ taOp' = Some([name |-> "cumulative_get", value |-> r.value,
                           exc |-> "none"])
    /\ UNCHANGED <<seqVars, viVars, chunkVars, rawVars, evVars,
                   pkgVars>>

\* time.note = value
SetNote ==
    /\ ta # None
    /\ \E value \in Notes :
          /\ ta' = Some([ta[1] EXCEPT !.note = value])
          /\ taOp' = Some([name |-> "note", arg |-> value, exc |-> "none"])
    /\ UNCHANGED <<seqVars, viVars, chunkVars, rawVars, evVars,
                   pkgVars>>

\* time.specification = specification, for an object that has none
SetSpecification ==
    /\ ta # None
    /\ ta[1].specification = None
    /\ \E specification \in CumulativeSpecifications \ {None} :
          /\ ta' = Some([ta[1] EXCEPT !.specification = specification])
          /\ taOp' = Some([name |-> "specification", arg |-> specification,
                           exc |-> "none"])
    /\ UNCHANGED <<seqVars, viVars, chunkVars, rawVars, evVars,
                   pkgVars>>

InitCumulative ==
    /\ SeqIdle
    /\ VarIntIdle
    /\ ChunkIdle
    /\ RawIdle
    /\ EvIdle
    /\ PkgIdle
    /\ ta \in {Some(TimeAbsolute(specification)) :
                  specification \in CumulativeSpecifications}
    /\ taOp = None

NextCumulative ==
    \/ SetCumulative
    \/ GetCumulative
    \/ SetNote
    \/ SetSpecification

SpecCumulative == InitCumulative /\ [][NextCumulative]_vars

\* the node of a sorted specification with the largest cumulative that is
\* at most c; the first node's cumulative is at most c
LargestCumulative(spec, c) ==
    CHOOSE n \in {spec[i] : i \in 1..Len(spec)} :
        /\ n.cumulative <= c
        /\ \A m \in {spec[i] : i \in 1..Len(spec)} :
              m.cumulative <= c => m.cumulative <= n.cumulative

\* C22: with a specification whose first node's cumulative is at most c,
\* cumulative = c puts the note at the node with the largest cumulative not
\* above c plus (c - node.cumulative) / node.ppn, and the cumulative read
\* right after it is c.
C22_CumulativeRoundTrip ==
    [][/\ (/\ taOp'[1].name = "cumulative"
           /\ ta[1].specification \notin {None, Some(<<>>)}
           /\ ta[1].specification[1][1].cumulative <= taOp'[1].arg) =>
              LET c == taOp'[1].arg
                  n == LargestCumulative(ta[1].specification[1], c)
              IN  /\ ta'[1].cumulative = None
                  /\ ta'[1].note * ppn(n).num
                        = n.note * ppn(n).num
                          + (c - n.cumulative) * NoteUnit * ppn(n).den
       /\ (/\ taOp # None
           /\ taOp[1].name = "cumulative"
           /\ ta[1].specification \notin {None, Some(<<>>)}
           /\ taOp'[1].name = "cumulative_get") =>
              taOp'[1].value = Some(taOp[1].arg)]_vars

\* a cumulative of the second node's range, in a specification whose nodes
\* differ in division, has been set and read back
C22_Witness ==
    /\ taOp # None
    /\ taOp[1].name = "cumulative_get"
    /\ taOp[1].value = Some(2560)
    /\ ta[1].specification # None
    /\ Len(ta[1].specification[1]) = 2
    /\ ta[1].specification[1][2].division = TimeDivisionPPQN(128)
    /\ ta[1].note = 3 * NoteUnit

-----------------------------------------------------------------------------
(* A cumulative assigned before the specification is bound.                *)

\* TimeAbsolute(note): an object at a note, without a specification
TimeAbsoluteAt(note) == [TimeAbsolute(None) EXCEPT !.note = note]

InitLazy ==
    /\ SeqIdle
    /\ VarIntIdle
    /\ ChunkIdle
    /\ RawIdle
    /\ EvIdle
    /\ PkgIdle
    /\ ta \in {Some(TimeAbsoluteAt(note)) : note \in Notes}
    /\ taOp = None

NextLazy ==
    \/ SetCumulative
    \/ GetCumulative
    \/ SetSpecification

SpecLazy == InitLazy /\ [][NextLazy]_vars

\* C30: while a cumulative c is stored, a read of the cumulative gives c;
\* and when the specification bound by then has a node with a cumulative at
\* most c, the read leaves the note at node.note
\* + (c - node.cumulative) / node.ppn, whatever the note was before.
C30_LazyCumulative ==
    [][(/\ taOp'[1].name = "cumulative_get"
        /\ ta[1].cumulative # None) =>
          LET c == ta[1].cumulative[1]
          IN  /\ taOp'[1].value = Some(c)
              /\ ta[1].specification \notin {None, Some(<<>>)} =>
                    LET n == LargestCumulative(ta[1].specification[1], c)
                    IN  ta'[1].note * ppn(n).num
                            = n.note * ppn(n).num
                              + (c - n.cumulative) * NoteUnit * ppn(n).den]_vars

-----------------------------------------------------------------------------
(* Lookups in a TimeSpecification, called on the list itself.              *)

\* a node whose position the caller has set in full
NodeFrom(note, bar, beat, tick, cumulative) ==
    [TimeSpecificationNode EXCEPT
        !.note = note, !.bar = bar, !.beat = beat, !.tick = tick,
        !.cumulative = cumulative]

\* sorted lists: the ones above, three nodes in 4/4, and a list that starts
\* inside bar 2
LookupSpecifications ==
    (Specifications \ {None}) \cup
    {Some(<<TimeSpecificationNode,
            NodeFrom(NoteUnit \div 4, 1, 2, 1, 256),
            NodeFrom(NoteUnit, 2, 1, 1, 1024)>>),
     Some(<<NodeFrom((3 * NoteUnit) \div 2, 2, 3, 5, 1536),
            NodeFrom(2 * NoteUnit, 3, 1, 1, 2048)>>)}

LookupNotes ==
    {0, NoteUnit \div 4 - 1, NoteUnit \div 4, NoteUnit,
     (3 * NoteUnit) \div 2, 2 * NoteUnit, 3 * NoteUnit}
LookupCumulatives == {0, 255, 256, 1024, 1535, 1536, 2048, 4000}
LookupBars == {1, 2, 3}
LookupBeats == {1, 2, 3, 4}
LookupTicks == {1, 4, 5, 6}

\* specification.note(value)
LookupNote ==
    /\ ta # None
    /\ ta[1].specification # None
    /\ \E value \in LookupNotes :
          taOp' = Some([name |-> "lookup_note", arg |-> value,
                        value |-> TimeSpecification_lookup(
                            ta[1].specification[1], value, "note")])
    /\ UNCHANGED <<ta, seqVars, viVars, chunkVars, rawVars, evVars,
                   pkgVars>>

\* specification.cumulative(value)
LookupCumulative ==
    /\ ta # None
    /\ ta[1].specification # None
    /\ \E value \in LookupCumulatives :
          taOp' = Some([name |-> "lookup_cumulative", arg |-> value,
                        value |-> TimeSpecification_lookup(
                            ta[1].specification[1], value, "cumulative")])
    /\ UNCHANGED <<ta, seqVars, viVars, chunkVars, rawVars, evVars,
                   pkgVars>>

\* specification.triple((bar, beat, tick))
LookupTriple ==
    /\ ta # None
    /\ ta[1].specification # None
    /\ \E bar \in LookupBars, beat \in LookupBeats, tick \in LookupTicks :
          taOp' = Some([name |-> "lookup_triple", arg |-> <<bar, beat, tick>>,
                        value |-> TimeSpecification_triple(
                            ta[1].specification[1], <<bar, beat, tick>>)])
    /\ UNCHANGED <<ta, seqVars, viVars, chunkVars, rawVars, evVars,
                   pkgVars>>

\* specification.append(TimeSpecificationNode()) on an empty list: the
\* first node of a specification
AppendNode ==
    /\ ta # None
    /\ ta[1].specification = Some(<<>>)
    /\ ta' = Some([ta[1] EXCEPT
                      !.specification = Some(<<TimeSpecificationNode>>)])
    /\ taOp' = Some([name |-> "append", arg |-> None, value |-> None])
    /\ UNCHANGED <<seqVars, viVars, chunkVars, rawVars, evVars,
                   pkgVars>>

InitLookup ==
    /\ SeqIdle
    /\ VarIntIdle
    /\ ChunkIdle
    /\ RawIdle
    /\ EvIdle
    /\ PkgIdle
    /\ ta \in {Some(TimeAbsolute(specification)) :
                  specification \in LookupSpecifications}
    /\ taOp = None

NextLookup ==
    \/ LookupNote
    \/ LookupCumulative
    \/ LookupTriple
    \/ AppendNode

SpecLookup == InitLookup /\ [][NextLookup]_vars

\* triples in lexicographic order
TripleLe(a, b) ==
    \/ a[1] < b[1]
    \/ a[1] = b[1] /\ a[2] < b[2]
    \/ a[1] = b[1] /\ a[2] = b[2] /\ a[3] <= b[3]

\* the key of a node under a lookup, and the order of that key
KeyOf(node, name) ==
    IF name = "lookup_note" THEN node.note
    ELSE IF name = "lookup_cumulative" THEN node.cumulative
    ELSE <<node.bar, node.beat, node.tick>>

KeyLe(a, b, name) == IF name = "lookup_triple" THEN TripleLe(a, b) ELSE a <= b

\* the last node of the list whose key is at most the target, if any
LastAtMost(spec, target, name) ==
    LET at == {i \in 1..Len(spec) : KeyLe(KeyOf(spec[i], name), target, name)}
    IN  IF at = {} THEN None
        ELSE Some(spec[CHOOSE i \in at : \A j \in at : j <= i])

\* C23: a lookup by note, by cumulative or by (bar, beat, tick) in a sorted
\* specification gives the last node whose key is at most the target, None
\* when every key is above it, and leaves the specification as it was.
C23_Lookup ==
    [][taOp'[1].name \in {"lookup_note", "lookup_cumulative", "lookup_triple"}
          => /\ taOp'[1].value = LastAtMost(ta[1].specification[1],
                                            taOp'[1].arg, taOp'[1].name)
             /\ ta'[1].specification = ta[1].specification]_vars

\* a lookup by note gave the middle node of three
C23_Witness ==
    /\ taOp # None
    /\ taOp[1].name = "lookup_note"
    /\ Len(ta[1].specification[1]) = 3
    /\ taOp[1].value = Some(ta[1].specification[1][2])

\* a lookup by triple found every node above the target
C23_WitnessNone ==
    /\ taOp # None
    /\ taOp[1].name = "lookup_triple"
    /\ ta[1].specification # Some(<<>>)
    /\ taOp[1].value = None

\* C24: the node made by TimeSpecificationNode() is at note 0, bar 1,
\* beat 1, tick 0 and cumulative 0, with a tempo of 120 BPM and a 4/4
\* signature.
C24_DefaultNode ==
    (taOp # None /\ taOp[1].name = "append") =>
        LET node == ta[1].specification[1][1]
        IN  /\ node.note = 0
            /\ node.bar = 1
            /\ node.beat = 1
            /\ node.tick = 0
            /\ node.cumulative = 0
            /\ node.tempo = Fraction(120, 1)
            /\ node.signature.numerator = 4
            /\ node.signature.denominator = 4

-----------------------------------------------------------------------------
(* The times that Sequence.parse stamps on the events.                     *)

\* bar, beat and tick of an event's time lie in the ranges of its signature
TimeInRange(e) ==
    /\ e.time.bars + 1 >= 1
    /\ e.time.beats + 1 >= 1
    /\ e.time.beats + 1 <= e.time.signature[1].numerator
    /\ e.time.ticks >= 0
    /\ e.time.ticks * e.time.signature[1].denominator < 1920

\* C25: a whole PPQN file that holds well-formed events, a
\* SetTimeSignature among them or not, parses, and the time of every event
\* has 1 <= bar, 1 <= beat <= numerator and 0 <= tick < 1920 / denominator
\* of the signature in force.
C25_TimeInRange ==
    (/\ op.name = "parse"
     /\ input # None
     /\ Canonical(input[1])
     /\ \A i \in 1..Len(input[1].tracks) : input[1].tracks[i] # <<>>) =>
        /\ exc = "none"
        /\ \A i \in 1..Len(events) : TimeInRange(events[i])

-----------------------------------------------------------------------------
(* The division of a sequence and of its events.                           *)

\* the setter of Delta.division with a division given: the ticks follow the
\* change of a division the event had before (Delta._update_division; the
\* quotient is exact for the ticks and divisions used here)
Delta_division(e, value) ==
    [e EXCEPT !.division = Some(value),
              !.ticks = IF e.division = None \/ e.division[1].mode # "ppqn"
                           \/ value.mode # "ppqn"
                        THEN e.ticks
                        ELSE (e.ticks * value.ppqn[1])
                                 \div e.division[1].ppqn[1]]

DivisionValues == {TimeDivisionPPQN(480), TimeDivisionPPQN(96)}

\* sequence.division = value
SetDivision ==
    /\ HasSequence
    /\ \E value \in DivisionValues :
          /\ division' = Some(value)
          /\ events' = [i \in 1..Len(events) |->
                           Delta_division(events[i], value)]
          /\ op' = Op("division", Some(value))
    /\ exc' = "none"
    /\ UNCHANGED <<input, source, format, out, viVars, extVars>>

NextDivision == SequenceNew \/ ListAppend \/ SetDivision

SpecDivision == Init /\ [][NextDivision]_vars

\* C26: whatever the order of the assignments to division and of the
\* appends, every event of the sequence has the division of the sequence.
C26_EventsShareDivision ==
    op.name \in {"new", "append", "division"} =>
        \A i \in 1..Len(events) : events[i].division = division

-----------------------------------------------------------------------------
(* The chunk framer of the package, src/midi/io.py.  Its loop takes one    *)
(* step of id, len, data for each item of the source.                      *)

IoChunkFail(exception, src) ==
    [exc |-> exception, id |-> <<>>, data |-> <<>>, source |-> src]

\* source.seek(length + 8 - source.tell(), io.SEEK_CUR), for a file object
IoSeek(src, length) ==
    IF src.kind = "file" THEN [src EXCEPT !.pos = length + 8] ELSE src

\* the loop of io.Chunk.parse (lines 18-38) and the seek after it
RECURSIVE IoChunkLoop(_, _, _, _, _)
IoChunkLoop(src, chunk, mode, length, id) ==
    Bind(NextItem(src), LAMBDA next :
        IF next = None THEN IoChunkFail("MIDIError", src)
        ELSE LET c == chunk \o next[1].item
                 after == next[1].source
             IN  IF mode = "data" /\ Len(c) >= length
                 THEN [exc |-> "none", id |-> Slice(c, 0, 4),
                       data |-> Slice(c, 8, length),
                       source |-> IoSeek(after, length)]
                 ELSE IF mode = "len" /\ Len(c) >= 8
                 THEN IoChunkLoop(after, c, "data",
                                  ChunkLength(Slice(c, 4, 8)) + 8, id)
                 ELSE IF mode = "id" /\ Len(c) >= 4
                 THEN IF \E i \in 1..4 : c[i] >= 128
                      THEN IoChunkFail("UnicodeDecodeError", after)
                      ELSE IF id # None /\ id[1] # Slice(c, 0, 4)
                      THEN IoChunkFail("MIDIError", after)
                      ELSE IoChunkLoop(after, c, "len", length, id)
                 ELSE IoChunkLoop(after, c, mode, length, id))

\* io.Chunk.parse(source, id)
io_Chunk_parse(src, id) == IoChunkLoop(src, <<>>, "id", 8, id)

\* chunk = io.Chunk.parse(stream, id)
IoChunkParse ==
    /\ stream # None
    /\ Len(chunks) < MaxCalls
    /\ \E id \in RequiredIds :
          \E r \in {io_Chunk_parse(stream[1], id)} :
              /\ stream' = Some(r.source)
              /\ chunks' = Append(chunks,
                               [exc |-> r.exc, id |-> r.id, data |-> r.data,
                                required |-> id, start |-> stream[1].pos])
    /\ UNCHANGED <<seqVars, viVars, rawVars, evVars, taVars, pkgVars>>

NextIoChunk == IoChunkParse

SpecIoChunk == InitChunk /\ [][NextIoChunk]_vars

\* C27: a call of io.Chunk.parse at offset start of an iterator over single
\* bytes that holds an ASCII ID (the required one, if one is required), a
\* length of zero or more and that many bytes returns the ID and the
\* payload and leaves the iterator at start + 8 + length, so that the next
\* call starts at the first byte of the next chunk.
C27_IoChunkFraming ==
    (stream # None /\ stream[1].kind = "bytes") =>
        \A i \in 1..Len(chunks) :
            LET d == stream[1].data
                start == chunks[i].start
                declared == ChunkLength(Slice(d, start + 4, start + 8))
            IN  (/\ Len(d) >= start + 8
                 /\ Len(d) >= start + 8 + declared
                 /\ \A k \in 1..4 : d[start + k] < 128
                 /\ chunks[i].required \in
                        {None, Some(Slice(d, start, start + 4))})
                   => /\ chunks[i].exc = "none"
                      /\ chunks[i].id = Slice(d, start, start + 4)
                      /\ chunks[i].data
                            = Slice(d, start + 8, start + 8 + declared)
                      /\ PosAfter(i) = start + 8 + declared

-----------------------------------------------------------------------------
(* A rejected assignment to Sequence.format.                               *)

\* C29: an assignment to Sequence.format that raises MIDIError leaves the
\* format of the sequence and the track number of every event as they were
\* before the assignment.
C29_RejectedFormatKeepsState ==
    [][(op'.name = "format" /\ exc' = "MIDIError") =>
           /\ format' = format
           /\ Len(events') = Len(events)
           /\ \A i \in 1..Len(events) : events'[i].track = events[i].track]_vars

\* a format 0 sequence with events of more than one track was asked to
\* become format 1 and the setter raised MIDIError
C29_Witness ==
    /\ op = Op("format", Some(1))
    /\ exc = "MIDIError"
    /\ format = Some(0)
    /\ Len(events) = 2
    /\ \E i \in 1..Len(events) : events[i].track = Some(2)

\* a conversion the setter does not support was asked for and it raised
\* MIDIError
C29_WitnessUnsupported ==
    /\ op = Op("format", Some(0))
    /\ exc = "MIDIError"
    /\ format = Some(1)
    /\ events # <<>>

-----------------------------------------------------------------------------
(* The package's events (src/midi/event.py).  io._var_int_parse and         *)
(* io._var_int_bytes of the package are the codec modelled above, line for  *)
(* line.  An event keeps its class, what its constructor stored, the ticks  *)
(* of its delta and its channel.                                            *)

PkgEvent(cls, data) ==
    [cls |-> cls, data |-> data, ticks |-> None, channel |-> None]

PkgRaise(exception, s) ==
    [exc |-> exception, event |-> PkgEvent("", <<>>), rest |-> s]

PkgReturn(e, s) == [exc |-> "none", event |-> e, rest |-> s]

\* the table of ChannelEvent._parse, by status & 0xf0
event_ChannelEvent_events ==
    (128 :> "NoteOff") @@ (144 :> "NoteOn") @@ (160 :> "NoteAftertouch")
    @@ (176 :> "Controller") @@ (192 :> "ProgramChange")
    @@ (208 :> "ChannelAftertouch") @@ (224 :> "PitchBend")

\* the table of MetaEvent._parse, by type byte
event_MetaEvent_events ==
    (0 :> "SequenceNumber") @@ (1 :> "Text") @@ (2 :> "Copyright")
    @@ (3 :> "Name") @@ (4 :> "Instrument") @@ (5 :> "Lyrics")
    @@ (6 :> "Marker") @@ (7 :> "CuePoint") @@ (32 :> "ChannelPrefix")
    @@ (47 :> "EndTrack") @@ (81 :> "SetTempo") @@ (84 :> "SMPTEOffset")
    @@ (88 :> "TimeSignature") @@ (89 :> "KeySignature")
    @@ (127 :> "ProprietaryEvent")

TextMetaEvents ==
    {"Text", "Copyright", "Name", "Instrument", "Lyrics", "Marker",
     "CuePoint"}

\* the status byte and the type byte of a class, from the tables of
\* ChannelEvent.__bytes__ and MetaEvent.__bytes__
event_code(table, cls) == CHOOSE k \in DOMAIN table : table[k] = cls

\* ChannelEvent._parse(source, status), with the _parse of the subclass
event_ChannelEvent_parse(s, status) ==
    LET channel == status % 16
        type == status - channel
    IN  IF type \notin DOMAIN event_ChannelEvent_events
        THEN PkgRaise("MIDIError", s)
        ELSE LET cls == event_ChannelEvent_events[type]
                 n == IF cls \in {"ProgramChange", "ChannelAftertouch"}
                      THEN 1 ELSE 2
             IN  IF Len(s) < n THEN PkgRaise("StopIteration", <<>>)
                 ELSE PkgReturn(
                          [PkgEvent(cls,
                               IF cls = "PitchBend"
                               THEN <<(s[1] % 128) + (s[2] % 128) * 128>>
                               ELSE SubSeq(s, 1, n))
                           EXCEPT !.channel = Some(channel)],
                          SubSeq(s, n + 1, Len(s)))

\* Tempo(mpqn=mpqn): the mpqn setter divides by the value, then bpm is set
\* to the default of the bpm keyword, 120
time_Tempo(value) ==
    IF value = 0 THEN [exc |-> "ZeroDivisionError", bpm |-> 0]
    ELSE [exc |-> "none", bpm |-> 120]

\* cls(data) of the meta event classes
event_MetaEvent_new(cls, data, rest) ==
    IF cls \in TextMetaEvents
    THEN IF \E i \in 1..Len(data) : data[i] >= 128
         THEN PkgRaise("UnicodeDecodeError", rest)
         ELSE PkgReturn(PkgEvent(cls, data), rest)
    ELSE IF cls \in {"SequenceNumber", "ChannelPrefix"}
    THEN PkgReturn(PkgEvent(cls, <<FromBytes(data)>>), rest)
    ELSE IF cls = "EndTrack" THEN PkgReturn(PkgEvent(cls, <<>>), rest)
    ELSE IF cls = "SetTempo"
    THEN LET tempo == time_Tempo(FromBytes(data))
         IN  IF tempo.exc # "none" THEN PkgRaise(tempo.exc, rest)
             ELSE PkgReturn(PkgEvent(cls, <<tempo.bpm>>), rest)
    ELSE PkgReturn(PkgEvent(cls, data), rest)

\* MetaEvent._parse(source)
event_MetaEvent_parse(s) ==
    IF s = <<>> THEN PkgRaise("StopIteration", s)
    ELSE IF Head(s) \notin DOMAIN event_MetaEvent_events
    THEN PkgRaise("KeyError", Tail(s))
    ELSE Bind(_var_int_parse(Tail(s)), LAMBDA length :
             IF length.exc # "none" THEN PkgRaise(length.exc, length.rest)
             ELSE IF Len(length.rest) < length.value
             THEN PkgRaise("StopIteration", <<>>)
             ELSE event_MetaEvent_new(
                      event_MetaEvent_events[Head(s)],
                      SubSeq(length.rest, 1, length.value),
                      SubSeq(length.rest, length.value + 1,
                             Len(length.rest))))

\* Event.parse(source); SysExEvent has no _parse
event_Event_parse(s) ==
    Bind(_var_int_parse(s), LAMBDA ticks :
        IF ticks.exc # "none" THEN PkgRaise(ticks.exc, ticks.rest)
        ELSE IF ticks.rest = <<>> THEN PkgRaise("StopIteration", <<>>)
        ELSE LET status == Head(ticks.rest)
                 after == Tail(ticks.rest)
             IN  IF status \in {240, 247}
                 THEN PkgRaise("AttributeError", after)
                 ELSE Bind(IF status = 255 THEN event_MetaEvent_parse(after)
                           ELSE event_ChannelEvent_parse(after, status),
                           LAMBDA r :
                               IF r.exc # "none" THEN r
                               ELSE [r EXCEPT !.event.ticks =
                                                  Some(ticks.value)]))

\* bytes(self.delta)
time_Delta_bytes(e) ==
    IF e.ticks = None THEN [exc |-> "none", bytes |-> <<0>>]
    ELSE VarIntBytesLoop(e.ticks[1], 0, <<>>)

\* self._parameters() of the channel event classes
event_parameters(e) ==
    IF e.cls = "PitchBend"
    THEN <<e.data[1] % 128, (e.data[1] \div 128) % 128>>
    ELSE e.data

\* self._bytes() of the meta event classes
event_bytes_of_data(e) ==
    IF e.cls = "SequenceNumber"
    THEN IF e.data[1] >= 65536 THEN [exc |-> "OverflowError", bytes |-> <<>>]
         ELSE [exc |-> "none", bytes |-> ToBytes(e.data[1], 2)]
    ELSE IF e.cls = "ChannelPrefix"
    THEN IF e.data[1] >= 256 THEN [exc |-> "OverflowError", bytes |-> <<>>]
         ELSE [exc |-> "none", bytes |-> ToBytes(e.data[1], 1)]
    ELSE IF e.cls = "SetTempo"
    THEN [exc |-> "none", bytes |-> ToBytes(60000000 \div e.data[1], 3)]
    ELSE [exc |-> "none", bytes |-> e.data]

\* ChannelEvent.__bytes__ and MetaEvent.__bytes__
event_bytes(e) ==
    Bind(time_Delta_bytes(e), LAMBDA delta :
        IF delta.exc # "none" THEN delta
        ELSE IF e.channel # None
        THEN [exc |-> "none",
              bytes |-> delta.bytes
                        \o <<event_code(event_ChannelEvent_events, e.cls)
                             + e.channel[1]>>
                        \o event_parameters(e)]
        ELSE Bind(event_bytes_of_data(e), LAMBDA data :
                 IF data.exc # "none" THEN data
                 ELSE [exc |-> "none",
                       bytes |-> delta.bytes
                                 \o <<255, event_code(event_MetaEvent_events,
                                                      e.cls)>>
                                 \o VarIntBytesLoop(Len(data.bytes), 0,
                                                    <<>>).bytes
                                 \o data.bytes]))

-----------------------------------------------------------------------------
(* The package's tracks, header and sequence (src/midi/sequence.py).  A    *)
(* Sequence is a list of tracks with a header; a Track is a list of events. *)

\* Track.parse(source): the events before the first EndTrack
RECURSIVE sequence_Track_parse(_, _)
sequence_Track_parse(s, track) ==
    Bind(event_Event_parse(s), LAMBDA item :
        IF item.exc # "none" THEN [exc |-> item.exc, track |-> <<>>]
        ELSE IF item.event.cls = "EndTrack"
        THEN [exc |-> "none", track |-> track]
        ELSE sequence_Track_parse(item.rest, Append(track, item.event)))

\* Track.__bytes__: the events, then an EndTrack with a delta of 0 ticks
RECURSIVE sequence_Track_bytes(_)
sequence_Track_bytes(track) ==
    IF track = <<>>
    THEN event_bytes([PkgEvent("EndTrack", <<>>) EXCEPT !.ticks = Some(0)])
    ELSE Bind(event_bytes(track[1]), LAMBDA head :
             IF head.exc # "none" THEN head
             ELSE Bind(sequence_Track_bytes(Tail(track)), LAMBDA tail :
                      IF tail.exc # "none" THEN tail
                      ELSE [exc |-> "none",
                            bytes |-> head.bytes \o tail.bytes]))

\* time.TimeDivision(bytes) of the package
time_TimeDivision(b) ==
    LET bits == FromBytes(b)
    IN  IF (bits \div 32768) % 2 = 1
        THEN [mode |-> "pps", ppqn |-> None,
              frames |-> Some((bits \div 256) % 128),
              subframes |-> Some(bits % 256)]
        ELSE [mode |-> "ppqn", ppqn |-> Some(bits % 32768),
              frames |-> None, subframes |-> None]

\* time.TimeDivision.__bytes__ of the package
time_TimeDivision_bytes(d) ==
    IF d.mode = "ppqn" THEN ToBytes(d.ppqn[1], 2)
    ELSE ToBytes(32768 + d.frames[1] * 256 + d.subframes[1], 2)

\* Header.parse(source): six bytes of the chunk
sequence_Header_parse(s) ==
    IF Len(s) < 6 THEN [exc |-> "StopIteration", header |-> None]
    ELSE [exc |-> "none",
          header |-> Some([format |-> FromBytes(SubSeq(s, 1, 2)),
                           tracks |-> FromBytes(SubSeq(s, 3, 4)),
                           time_division |->
                               time_TimeDivision(SubSeq(s, 5, 6))])]

\* Header.__bytes__
sequence_Header_bytes(header) ==
    ToBytes(header.format, 2) \o ToBytes(header.tracks, 2)
    \o time_TimeDivision_bytes(header.time_division)

\* the loop of Sequence.parse: header.tracks chunks are read, and the ones
\* whose ID is MTrk are parsed and appended
RECURSIVE sequence_Sequence_parse_tracks(_, _, _, _)
sequence_Sequence_parse_tracks(src, header, i, tracks) ==
    IF i = header[1].tracks
    THEN [exc |-> "none",
          sequence |-> Some([header |-> header, tracks |-> tracks])]
    ELSE Bind(io_Chunk_parse(src, None), LAMBDA chunk :
             IF chunk.exc # "none"
             THEN [exc |-> chunk.exc, sequence |-> None]
             ELSE IF chunk.id # MTrk
             THEN sequence_Sequence_parse_tracks(chunk.source, header,
                                                 i + 1, tracks)
             ELSE Bind(sequence_Track_parse(chunk.data, <<>>), LAMBDA t :
                      IF t.exc # "none"
                      THEN [exc |-> t.exc, sequence |-> None]
                      ELSE sequence_Sequence_parse_tracks(
                               chunk.source, header, i + 1,
                               Append(tracks, t.track))))

\* Sequence.parse(source), the source an iterator over the bytes of a file
sequence_Sequence_parse(data) ==
    Bind(io_Chunk_parse(Source("bytes", data), Some(MThd)), LAMBDA chunk :
        IF chunk.exc # "none" THEN [exc |-> chunk.exc, sequence |-> None]
        ELSE Bind(sequence_Header_parse(chunk.data), LAMBDA h :
                 IF h.exc # "none" THEN [exc |-> h.exc, sequence |-> None]
                 ELSE sequence_Sequence_parse_tracks(chunk.source, h.header,
                                                     0, <<>>)))

\* the MTrk chunks of Sequence.__bytes__, one for every track of the list
RECURSIVE sequence_Sequence_bytes_tracks(_)
sequence_Sequence_bytes_tracks(tracks) ==
    IF tracks = <<>> THEN [exc |-> "none", bytes |-> <<>>]
    ELSE Bind(sequence_Track_bytes(tracks[1]), LAMBDA track :
             IF track.exc # "none" THEN track
             ELSE Bind(sequence_Sequence_bytes_tracks(Tail(tracks)),
                       LAMBDA tail :
                           IF tail.exc # "none" THEN tail
                           ELSE [exc |-> "none",
                                 bytes |-> Chunk_raw(MTrk, track.bytes)
                                           \o tail.bytes]))

\* Sequence.__bytes__: the MThd chunk of the stored header, then the tracks
sequence_Sequence_bytes(sequence) ==
    Bind(sequence_Sequence_bytes_tracks(sequence.tracks), LAMBDA tracks :
        IF tracks.exc # "none" THEN tracks
        ELSE [exc |-> "none",
              bytes |-> Chunk_raw(MThd,
                                  sequence_Header_bytes(sequence.header[1]))
                        \o tracks.bytes])

\* the tracks a caller appends hold at most this many tracks in the list
MaxPkgTracks == 3

\* the files given to the package: the regular files of at most one event
\* and the files made from them by one irregularity
PkgFiles ==
    UNION {FileChoices(f) : f \in {g \in Files : EventCount(g.tracks) <= 1}}

\* the tracks a caller builds: Track(), and a track of one NoteOn(60, 100,
\* channel=0, delta=0)
PkgTracks ==
    {<<>>,
     <<[PkgEvent("NoteOn", <<60, 100>>)
        EXCEPT !.ticks = Some(0), !.channel = Some(0)]>>}

\* sequence = Sequence.parse(iter(data))
PkgParse ==
    /\ pkg = None
    /\ pkgOp = None
    /\ \E f \in PkgFiles :
          \E r \in {sequence_Sequence_parse(FileWire(f))} :
              /\ pkg' = r.sequence
              /\ pkgOp' = Some([name |-> "parse", exc |-> r.exc,
                                input |-> FileWire(f), out |-> <<>>])
    /\ UNCHANGED <<seqVars, viVars, chunkVars, rawVars, evVars, taVars>>

\* sequence.append(track)
PkgAppend ==
    /\ pkg # None
    /\ Len(pkg[1].tracks) < MaxPkgTracks
    /\ \E track \in PkgTracks :
          /\ pkg' = Some([pkg[1] EXCEPT !.tracks = Append(@, track)])
          /\ pkgOp' = Some([name |-> "append", exc |-> "none",
                            input |-> <<>>, out |-> <<>>])
    /\ UNCHANGED <<seqVars, viVars, chunkVars, rawVars, evVars, taVars>>

\* del sequence[i]
PkgRemove ==
    /\ pkg # None
    /\ \E i \in 1..Len(pkg[1].tracks) :
          /\ pkg' = Some([pkg[1] EXCEPT !.tracks =
                             SubSeq(@, 1, i - 1) \o SubSeq(@, i + 1, Len(@))])
          /\ pkgOp' = Some([name |-> "remove", exc |-> "none",
                            input |-> <<>>, out |-> <<>>])
    /\ UNCHANGED <<seqVars, viVars, chunkVars, rawVars, evVars, taVars>>

\* bytes(sequence)
PkgEmit ==
    /\ pkg # None
    /\ \E r \in {sequence_Sequence_bytes(pkg[1])} :
          pkgOp' = Some([name |-> "bytes", exc |-> r.exc, input |-> <<>>,
                         out |-> r.bytes])
    /\ UNCHANGED <<pkg, seqVars, viVars, chunkVars, rawVars, evVars, taVars>>

NextPkg == PkgParse \/ PkgAppend \/ PkgRemove \/ PkgEmit

SpecPkg == Init /\ [][NextPkg]_vars

\* the IDs of the chunks laid back to back in a sequence of bytes
RECURSIVE EmittedIds(_)
EmittedIds(b) ==
    IF Len(b) < 8 THEN <<>>
    ELSE <<SubSeq(b, 1, 4)>>
         \o EmittedIds(SubSeq(b, 9 + FromBytes(SubSeq(b, 5, 8)), Len(b)))

\* C28: in the bytes a track-list Sequence emits, the ntracks field of the
\* MThd header equals the number of MTrk chunks that follow the header.
C28_HeaderCountsTracks ==
    (pkgOp # None /\ pkgOp[1].name = "bytes" /\ pkgOp[1].exc = "none") =>
        LET bytes == pkgOp[1].out
            ids == EmittedIds(bytes)
        IN  FromBytes(SubSeq(bytes, 11, 12))
                = Cardinality({i \in 2..Len(ids) : ids[i] = MTrk})

====
